---- MODULE Spec2Model ----
(***************************************************************************)
(* Model of the motion editor of being: the spline edit history, the       *)
(* transport and the asynchronous backend requests of                      *)
(* being/web/static/components/motion_editor/motion_editor.js, with the    *)
(* older editor of static/js/spline_editor.js as a second variant.         *)
(*                                                                         *)
(* Units.  Times (knots, positions, timestamps) are integers in units of   *)
(* 10 ms, so INTERVAL (0.010 s) is 1 and DEFAULT_KNOT_SHIFT (0.5 s) is 50. *)
(* Ordinates (coefficients, motor lengths) are integers in units of 0.001, *)
(* so the minimal limit height 0.001 of Editor.limits is 1.                *)
(*                                                                         *)
(* Memory.  A BPoly holds references to two arrays, c and x.  The arrays   *)
(* live in `heap` (array id -> value) and a spline is the pair of ids      *)
(* [c, x], so that two splines which share an array are seen to share it   *)
(* and a write through one is seen through the other.  An id is a name and  *)
(* nothing else: after every step the live arrays are numbered in the      *)
(* order in which the list, the history and the requests in flight refer   *)
(* to them, and arrays nothing refers to are dropped.  Every array of the   *)
(* heap is a matrix: the knots of a spline are held as its single row.     *)
(***************************************************************************)
EXTENDS Integers, Sequences, FiniteSets, TLC

VARIABLES
    heap,               \* array id -> array value (knots or coefficients)
    hist,               \* History: the snapshot sequence (spline references)
    cursor,             \* History: index of the current snapshot, 0-based
    state,              \* Transport.state
    position,           \* Transport.position
    duration,           \* Transport.duration
    looping,            \* Transport.looping
    startTime,          \* Transport.startTime
    fsmError,           \* an invalid transport transition has been attempted
    pending,            \* backend requests in flight (awaited by a handler)
    recordedTrajectory, \* Editor.recordedTrajectory (the sample times)
    selected,           \* SplineList.selected
    content,            \* SplineList.splines: name -> spline reference
    limitOn,            \* is_checked(limitBtn)
    livePreview,        \* is_checked(livePreviewBtn)
    saveDisabled,       \* saveBtn.disabled
    undoDisabled,       \* undoBtn.disabled
    redoDisabled,       \* redoBtn.disabled
    stopDisabled,       \* stopBtn and playPauseBtn disabled (disable_button)
    recDisabled,        \* recBtn disabled (disable_button)
    clock,              \* the backend's clock
    lastMessage,        \* what the last message of the backend did to the transport
    lastOp,             \* the last operation on the history (for the record)
    variant,            \* which editor the page hosts
    contractViolation,  \* History.undo / redo was called when not permitted
    viewport,           \* CurverBase.viewport: a bounding box [ll, ur]
    dataBbox,           \* Editor.dataBbox of the older editor
    graph,              \* clientWidth and clientHeight of CurverBase.graph
    trafo,              \* CurverBase.trafo: data space -> view space
    trafoInv,           \* CurverBase.trafoInv: view space -> data space
    auto,               \* CurverBase.auto: fit the viewport to the lines
    drag,               \* the gesture of setup_svg_drag_navigation: orig and mid
    center              \* the NotificationCenter of the page

vars == <<heap, hist, cursor, state, position, duration, looping, startTime,
          fsmError, pending, recordedTrajectory, selected, content, limitOn,
          livePreview, saveDisabled, undoDisabled, redoDisabled, stopDisabled,
          recDisabled, clock, lastMessage, lastOp, variant, contractViolation,
          viewport, dataBbox, graph, trafo, trafoInv, auto, drag, center>>

histVars == <<hist, cursor>>
transportVars == <<state, position, duration, looping, startTime, fsmError>>
uiVars == <<saveDisabled, undoDisabled, redoDisabled, stopDisabled, recDisabled>>
toolVars == <<limitOn, livePreview>>
listVars == <<selected, content>>
viewVars == <<viewport, trafo, trafoInv>>
curverVars == <<viewVars, dataBbox, graph, drag>>
editorVars == <<variant, center, contractViolation, dataBbox, graph, drag>>

(***************************************************************************)
(* Bounds of the model.                                                    *)
(***************************************************************************)
MaxHist == 3        \* snapshots kept in the history
MaxPending == 2     \* backend requests in flight at once
MaxSaves == 1       \* save requests in flight at once
MaxTime == 4        \* last value of the backend clock
MaxTraj == 1        \* samples of a recording
MaxKnot == 52       \* largest knot an edit may produce
MaxCoef == 8        \* largest ordinate an edit may produce
MaxClick == 1       \* largest time a pointer click maps to
MotorLength == 4    \* length of the motor of the selected motion player
MaxSplines == 2     \* spline instances alive at once in the spline algebra

(***************************************************************************)
(* Program constants.                                                      *)
(***************************************************************************)
INTERVAL == 1
DEFAULT_KNOT_SHIFT == 50
LIMIT_MIN_HEIGHT == 1

PAUSED == "PAUSED"
PLAYING == "PLAYING"
RECORDING == "RECORDING"

\* The two editors: components/motion_editor/motion_editor.js and
\* static/js/spline_editor.js
MOTION_EDITOR == "motion_editor"
SPLINE_EDITOR == "spline_editor"

NoName == 0
NoRef == [c |-> 0, x |-> 0]
NoMark == [c |-> << >>, x |-> << >>]

\* The record of an operation on the history: which one, the spline
\* retrieve() returned before it (for an undo) and the number of snapshots it
\* discarded
Op(op, undone, dropped) == [op |-> op, undone |-> undone, dropped |-> dropped]

Min(a, b) == IF a < b THEN a ELSE b
Max(a, b) == IF a > b THEN a ELSE b

\* clip(value, lower, upper) of math.js
clip(v, lo, hi) == Max(lo, Min(hi, v))

(***************************************************************************)
(* The numbers of the curve view.  A JavaScript number is kept as a        *)
(* fraction n / d in lowest terms with d > 0; d = 0 stands for the values  *)
(* that are not finite: 1/0 is Infinity, -1/0 is -Infinity, 0/0 is NaN.    *)
(* The arithmetic is exact: rounding, overflow and the sign of zero (which *)
(* === ignores) are left out.                                              *)
(***************************************************************************)
Abs(a) == IF a < 0 THEN -a ELSE a
Sign(a) == IF a < 0 THEN -1 ELSE IF a > 0 THEN 1 ELSE 0

RECURSIVE Gcd(_, _)
Gcd(a, b) == IF b = 0 THEN a ELSE Gcd(b, a % b)

Frac(n, d) ==
    IF d = 1 THEN [n |-> n, d |-> 1]
    ELSE IF d = 0 THEN [n |-> Sign(n), d |-> 0]
    ELSE LET g == Gcd(Abs(n), Abs(d))
         IN  [n |-> (Sign(d) * n) \div g, d |-> Abs(d) \div g]

Num(a) == [n |-> a, d |-> 1]
Infinity == [n |-> 1, d |-> 0]
NegInfinity == [n |-> -1, d |-> 0]
NaN == [n |-> 0, d |-> 0]

isFinite(x) == x.d # 0
isNaN(x) == x.d = 0 /\ x.n = 0

Neg(x) == [n |-> -x.n, d |-> x.d]
Add(x, y) ==
    IF x.d = 0 /\ y.d = 0
    THEN IF x.n = y.n THEN x ELSE NaN
    ELSE IF x.d = y.d THEN Frac(x.n + y.n, x.d)
    ELSE Frac(x.n * y.d + y.n * x.d, x.d * y.d)
Sub(x, y) == Add(x, Neg(y))
Mul(x, y) ==
    IF x.d = 1 /\ y.d = 1 THEN [n |-> x.n * y.n, d |-> 1]
    ELSE Frac(x.n * y.n, x.d * y.d)
Div(x, y) ==
    IF y.n = 1 /\ y.d = 1 THEN x
    ELSE Mul(x, Frac(y.d, y.n))
Less(x, y) ==
    IF x.d = 0 /\ y.d = 0 THEN x.n < y.n ELSE x.n * y.d < y.n * x.d

\* Math.min and Math.max: NaN if an argument is NaN
MathMin(x, y) == IF isNaN(x) \/ isNaN(y) THEN NaN ELSE IF Less(y, x) THEN y ELSE x
MathMax(x, y) == IF isNaN(x) \/ isNaN(y) THEN NaN ELSE IF Less(x, y) THEN y ELSE x

(***************************************************************************)
(* Arrays and the heap.                                                    *)
(***************************************************************************)
Fresh(used) == CHOOSE i \in 1..(Cardinality(used) + 1) : i \notin used

\* The heap h with array v stored under the id n.
Store(h, n, v) == [i \in DOMAIN h \cup {n} |-> IF i = n THEN v ELSE h[i]]

RefIds(r) == {r.c, r.x} \ {0}

Roots(hs, cont, pend) ==
    UNION ({RefIds(hs[i]) : i \in DOMAIN hs}
           \cup {RefIds(cont[n]) : n \in DOMAIN cont}
           \cup {RefIds(pend[i].spline) : i \in DOMAIN pend})

\* The ids of a sequence of splines, in order: c, x, c, x, ...
RefSeq(rs) ==
    [k \in 1..(2 * Len(rs)) |->
        IF k % 2 = 1 THEN rs[(k + 1) \div 2].c ELSE rs[k \div 2].x]

\* The order in which the program's objects refer to the arrays: the
\* splines of the list, the snapshots of the history, the requests in flight
Traversal(hs, cont, pend) ==
    RefSeq(cont) \o RefSeq(hs) \o RefSeq([i \in DOMAIN pend |-> pend[i].spline])

\* The number of an array: its rank among the arrays by first reference
NewId(tr, id) ==
    IF id = 0 THEN 0
    ELSE LET first == CHOOSE i \in DOMAIN tr :
                          tr[i] = id /\ \A j \in 1..(i - 1) : tr[j] # id
         IN Cardinality({tr[j] : j \in 1..first} \ {0})

MoveRef(tr, r) == [c |-> NewId(tr, r.c), x |-> NewId(tr, r.x)]

\* Arrays nothing refers to any more are collected and the others numbered
\* by first reference: the heap and the references into it after that.
Collect(h, hs, cont, pend) ==
    LET tr == Traversal(hs, cont, pend)
        live == Roots(hs, cont, pend)
    IN  [heap |-> [n \in 1..Cardinality(live) |->
                      h[CHOOSE id \in live : NewId(tr, id) = n]],
         hist |-> [i \in DOMAIN hs |-> MoveRef(tr, hs[i])],
         content |-> [n \in DOMAIN cont |-> MoveRef(tr, cont[n])],
         pending |-> [i \in DOMAIN pend |->
                        [pend[i] EXCEPT !.spline = MoveRef(tr, pend[i].spline)]]]

Knots(h, r) == h[r.x][1]
Coeffs(h, r) == h[r.c]

\* The arrays of a spline, by value
SnapshotValue(h, r) == IF r.c = 0 THEN NoMark ELSE [c |-> h[r.c], x |-> h[r.x]]
HistoryValues(h, hs) == [i \in DOMAIN hs |-> SnapshotValue(h, hs[i])]

\* BPoly.start / end / duration / n_segments
SplineStart(h, r) == Knots(h, r)[1]
SplineEnd(h, r) == Knots(h, r)[Len(Knots(h, r))]
SplineDuration(h, r) == SplineEnd(h, r) - SplineStart(h, r)
NSegments(h, r) == Len(Knots(h, r)) - 1

\* c.flat(): the ordinates of all rows and segments
FlatCoeffs(cs) == {cs[i][j] : i \in DOMAIN cs, j \in 1..Len(cs[1])}
SetMin(S) == CHOOSE m \in S : \A v \in S : m <= v
SetMax(S) == CHOOSE m \in S : \A v \in S : m >= v
SplineMin(h, r) == SetMin(FlatCoeffs(Coeffs(h, r)))
SplineMax(h, r) == SetMax(FlatCoeffs(Coeffs(h, r)))

(***************************************************************************)
(* History (static/js/history.js): a snapshot sequence and a cursor.       *)
(***************************************************************************)
HistoryLength(hs) == Len(hs)
Undoable(hs, cur) == cur > 0
Redoable(hs, cur) == cur < Len(hs) - 1
Savable(hs) == Len(hs) > 1

\* retrieve(): the snapshot at the cursor (undefined, NoRef, when there is none)
Retrieve(hs, cur) == IF cur + 1 \in DOMAIN hs THEN hs[cur + 1] ELSE NoRef

\* capture(s): drop the snapshots after the cursor, append s, cursor on s
CaptureHist(hs, cur, s) == Append(SubSeq(hs, 1, cur + 1), s)
CaptureCursor(hs, cur, s) == Len(CaptureHist(hs, cur, s)) - 1

\* undo() / redo() move the cursor by one; clear() empties and resets
UndoCursor(cur) == cur - 1
RedoCursor(cur) == cur + 1
ClearedHist == << >>
ClearedCursor == -1

(***************************************************************************)
(* Transport (components/motion_editor/transport.js).                      *)
(***************************************************************************)
\* The states an operation of the transport may be called in.
TransportLegal(op, st) ==
    CASE op = "play" -> st = PAUSED
      [] op = "pause" -> st = PLAYING
      [] op = "record" -> st = PAUSED
      [] op = "stop" -> TRUE

TransportTarget(op) ==
    CASE op = "play" -> PLAYING
      [] op = "pause" -> PAUSED
      [] op = "record" -> RECORDING
      [] op = "stop" -> PAUSED

\* The state after op is called in st: an invalid transition is an error
\* which leaves the state as it is.
TransportAfter(op, st) == IF TransportLegal(op, st) THEN TransportTarget(op) ELSE st

\* a % b of JavaScript for b > 0: the sign is the dividend's
JSMod(a, b) == IF a >= 0 THEN a % b ELSE -((-a) % b)

\* move(timestamp): the position a timestamp maps to
MovePosition(ts, start, loop, dur) ==
    IF loop /\ dur > 0 THEN JSMod(ts - start, dur) ELSE ts - start

(***************************************************************************)
(* Spline edits (motion_editor.js 49-73) on array values.  A factor is the *)
(* fraction num / den.                                                     *)
(***************************************************************************)
\* multiply_scalar(factor, array) of array.js on a flat array
multiply_scalar(num, den, arr) == [i \in DOMAIN arr |-> (arr[i] * num) \div den]

Divisible(num, den, arr) == \A i \in DOMAIN arr : (arr[i] * num) % den = 0

\* Coefficients of which only the first row is multiplied
ScaledFirstRow(cs, num, den) ==
    [r \in DOMAIN cs |-> IF r = 1 THEN multiply_scalar(num, den, cs[r]) ELSE cs[r]]

\* array_shape of array.js: the rows and the columns of a nested array
array_shape(cs) == <<Len(cs), Len(cs[1])>>

\* c.flat(): the rows one after the other
flat(cs) ==
    LET RECURSIVE Joined(_)
        Joined(r) == IF r = 0 THEN << >> ELSE Joined(r - 1) \o cs[r]
    IN  Joined(Len(cs))

\* array_reshape of array.js: a flat array cut into shape[1] rows of
\* shape[2] elements
array_reshape(arr, shape) ==
    [r \in 1..shape[1] |-> [j \in 1..shape[2] |-> arr[(r - 1) * shape[2] + j]]]

\* scale_spline: the scaled coefficients, reshaped to the shape of spline.c
ScaledCoeffs(cs, num, den) ==
    array_reshape(multiply_scalar(num, den, flat(cs)), array_shape(cs))

\* Knots of which only the last one is multiplied
StretchedLastKnot(xs, num, den) ==
    [i \in DOMAIN xs |-> IF i = Len(xs) THEN (xs[i] * num) \div den ELSE xs[i]]

\* stretch_spline: the stretched knots
StretchedKnots(xs, num, den) == multiply_scalar(num, den, xs)

\* An offset that is not capped at the start
ShiftOffsetUncapped(xs, offset) ==
    IF offset[1] = "-inf" THEN -xs[1] ELSE offset[2]

\* shift_spline: offset = Math.max(offset, -start), added to every knot.
\* An offset is <<"fin", v>> or <<"-inf", 0>> (-Infinity).
ShiftOffset(xs, offset) ==
    IF offset[1] = "-inf" THEN -xs[1] ELSE Max(offset[2], -xs[1])

ShiftedKnots(xs, offset) == [i \in DOMAIN xs |-> xs[i] + ShiftOffset(xs, offset)]

\* zero_spline(ndim) of spline.js for one channel: the flat cubic spline of
\* one second
ZeroCoeffs == << <<0>>, <<0>>, <<0>>, <<0>> >>
ZeroKnots == <<0, 100 * INTERVAL>>

\* BPoly.insert_knot([t, y]): a knot at t splits the segment it falls into;
\* the ordinate at the new knot is y.  A time that is not strictly inside a
\* segment is rejected.
InsertSegment(xs, t) ==
    IF \E i \in 1..(Len(xs) - 1) : xs[i] < t /\ t < xs[i + 1]
    THEN CHOOSE i \in 1..(Len(xs) - 1) : xs[i] < t /\ t < xs[i + 1]
    ELSE 0

\* A knot that is appended after the last one wherever it falls
InsertedKnotsAtEnd(xs, t) ==
    IF InsertSegment(xs, t) = 0 THEN xs ELSE Append(xs, t)

InsertedKnots(xs, t) ==
    LET seg == InsertSegment(xs, t)
    IN  IF seg = 0 THEN xs
        ELSE SubSeq(xs, 1, seg) \o <<t>> \o SubSeq(xs, seg + 1, Len(xs))

InsertedCoeffs(cs, xs, t, y) ==
    LET seg == InsertSegment(xs, t)
        order == Len(cs)
        Row(r) == LET old == cs[r]
                      left == IF r = order THEN y ELSE old[seg]
                      right == IF r = 1 THEN y ELSE old[seg]
                  IN SubSeq(old, 1, seg - 1) \o <<left, right>>
                     \o SubSeq(old, seg + 1, Len(old))
    IN  IF seg = 0 THEN cs ELSE [r \in DOMAIN cs |-> Row(r)]

\* Editor.limits(): the box [0, bottom] .. [Infinity, top]; with the limit
\* switch off the ordinates are unbounded.
LimitTop == Max(LIMIT_MIN_HEIGHT, MotorLength)
limits(on) == [limited |-> on, left |-> 0, bottom |-> 0, top |-> LimitTop]

\* BPoly.restrict_to_bbox(box) on the arrays of a spline
RestrictedKnots(xs, box) == [i \in DOMAIN xs |-> Max(xs[i], box.left)]
RestrictedCoeffs(cs, box) ==
    IF box.limited
    THEN [r \in DOMAIN cs |->
            [j \in DOMAIN cs[r] |-> clip(cs[r][j], box.bottom, box.top)]]
    ELSE cs

\* A restriction that clamps nothing
restrict_to_bbox_without_effect(h, r, box) == h

\* restrict_to_bbox clamps the arrays of the spline in place: the heap after.
restrict_to_bbox(h, r, box) ==
    [i \in DOMAIN h |->
        IF i = r.c THEN RestrictedCoeffs(h[i], box)
        ELSE IF i = r.x THEN <<RestrictedKnots(h[i][1], box)>>
        ELSE h[i]]

\* A copy whose knots are the array of the original
CopyRefSharingKnots(h, r) == [c |-> Fresh(DOMAIN h), x |-> r.x]

\* BPoly.copy(): a spline with arrays of its own
CopyHeap(h, r) ==
    LET nc == Fresh(DOMAIN h)
        nx == Fresh(DOMAIN h \cup {nc})
    IN Store(Store(h, nc, h[r.c]), nx, h[r.x])

CopyRef(h, r) ==
    LET nc == Fresh(DOMAIN h)
        nx == Fresh(DOMAIN h \cup {nc})
    IN [c |-> nc, x |-> nx]

(***************************************************************************)
(* Backend requests.  A handler that awaits a request leaves it in         *)
(* `pending`; the rest of the handler runs when the response is delivered. *)
(* Responses of different requests arrive in any order.                    *)
(***************************************************************************)
\* A request: what is sent, and for the record the state of the transport
\* when it was issued and whether what its handler goes on to write has been
\* overtaken since
Req(kind) == [kind |-> kind, spline |-> NoRef, name |-> NoName,
              loop |-> FALSE, offset |-> 0,
              issuedIn |-> state, overtaken |-> FALSE]

\* The requests of a kind are overtaken
Overtake(pend, kind) ==
    [i \in DOMAIN pend |->
        IF pend[i].kind = kind THEN [pend[i] EXCEPT !.overtaken = TRUE]
        ELSE pend[i]]

\* The requests of a kind issued before request i are overtaken
OvertakeBefore(pend, i, kind) ==
    [k \in DOMAIN pend |->
        IF k < i /\ pend[k].kind = kind THEN [pend[k] EXCEPT !.overtaken = TRUE]
        ELSE pend[k]]

Remove(seq, i) == SubSeq(seq, 1, i - 1) \o SubSeq(seq, i + 1, Len(seq))

\* Editor.stop_spline_playback() up to its await: the requests it issues
stop_spline_playback(st) == IF st # PAUSED THEN <<Req("stop")>> ELSE << >>

\* Editor.play_current_spline() up to its await: the request it issues,
\* pos being transport.position when it is called.  With no snapshot at the
\* cursor there is no spline to send and the function ends.
play_current_spline(pos) ==
    IF Retrieve(hist, cursor) = NoRef THEN << >>
    ELSE <<[Req("play") EXCEPT !.spline = Retrieve(hist, cursor),
                               !.loop = looping,
                               !.offset = pos]>>

(***************************************************************************)
(* Bounding boxes (bbox.js): the corners ll and ur, each <<x, y>>.  Times  *)
(* are in units of 10 ms and ordinates in units of 0.001, as elsewhere.    *)
(***************************************************************************)
BBox(ll, ur) == [ll |-> ll, ur |-> ur]
BBoxWidth(b) == Sub(b.ur[1], b.ll[1])
BBoxHeight(b) == Sub(b.ur[2], b.ll[2])
BBoxSize(b) == <<BBoxWidth(b), BBoxHeight(b)>>

expand_by_bbox(b, o) ==
    BBox(<<MathMin(b.ll[1], o.ll[1]), MathMin(b.ll[2], o.ll[2])>>,
         <<MathMax(b.ur[1], o.ur[1]), MathMax(b.ur[2], o.ur[2])>>)

\* BPoly.bbox(): [start, min] to [end, max]
SplineBBox(h, r) ==
    LET x == Knots(h, r)
    IN  BBox(<<Num(x[1]), Num(SplineMin(h, r))>>,
             <<Num(x[Len(x)]), Num(SplineMax(h, r))>>)

\* divide_arrays of array.js: element by element
divide_arrays(a, b) == <<Div(a[1], b[1]), Div(a[2], b[2])>>

(***************************************************************************)
(* The curve view: CurverBase of static/js/curver.js.                      *)
(***************************************************************************)
MARGIN == 50
ZOOM_FACTOR_PER_STEP == Frac(3, 2)

MIN_VIEWPORT == BBox(<<Infinity, Num(-1)>>, <<NegInfinity, Num(1)>>)
DEFAULT_DATA_BBOX == BBox(<<Num(0), Num(0)>>, <<Num(100 * INTERVAL), Num(40)>>)

\* The base class on its own (auto = true), as a live plotter uses it
CURVER == "curver"

\* A DOMMatrix of two dimensions: x' = a x + c y + e, y' = b x + d y + f
DOMMatrix(a, b, c, d, e, f) == [a |-> a, b |-> b, c |-> c, d |-> d, e |-> e, f |-> f]
IdentityMatrix == DOMMatrix(Num(1), Num(0), Num(0), Num(1), Num(0), Num(0))
NaNMatrix == DOMMatrix(NaN, NaN, NaN, NaN, NaN, NaN)

Determinant(m) == Sub(Mul(m.a, m.d), Mul(m.b, m.c))
IsInvertible(m) ==
    /\ \A k \in DOMAIN m : isFinite(m[k])
    /\ Determinant(m) # Num(0)

\* DOMMatrix.inverse(): every entry NaN if the matrix is not invertible
MatrixInverse(m) ==
    IF ~IsInvertible(m) THEN NaNMatrix
    ELSE LET det == Determinant(m)
         IN  DOMMatrix(Div(m.d, det), Div(Neg(m.b), det),
                       Div(Neg(m.c), det), Div(m.a, det),
                       Div(Sub(Mul(m.c, m.f), Mul(m.d, m.e)), det),
                       Div(Sub(Mul(m.b, m.e), Mul(m.a, m.f)), det))

\* DOMPoint.matrixTransform
matrixTransform(pt, m) ==
    <<Add(Add(Mul(m.a, pt[1]), Mul(m.c, pt[2])), m.e),
      Add(Add(Mul(m.b, pt[1]), Mul(m.d, pt[2])), m.f)>>

\* update_trafo: the scales [sx, sy] of a graph area g showing the viewport v
TrafoScale(g, v) ==
    divide_arrays(<<Num(g.clientWidth - 2 * MARGIN), Num(g.clientHeight - 2 * MARGIN)>>,
                  BBoxSize(v))

\* update_trafo: the condition of its early return
TrafoDegenerate(g, v) ==
    LET s == TrafoScale(g, v)
    IN  ~isFinite(s[1]) \/ ~isFinite(s[2]) \/ s[1] = Num(0) \/ s[2] = Num(0)

\* update_trafo: the matrix it builds
TrafoMatrix(g, v) ==
    LET s == TrafoScale(g, v)
    IN  DOMMatrix(s[1], Num(0), Num(0), Neg(s[2]),
                  Add(Mul(Neg(s[1]), v.ll[1]), Num(MARGIN)),
                  Add(Mul(s[2], Add(v.ll[2], BBoxHeight(v))), Num(MARGIN)))

\* update_trafo replacing the forward transform only
update_trafo_forward_only(g, v) ==
    IF TrafoDegenerate(g, v)
    THEN UNCHANGED <<trafo, trafoInv>>
    ELSE /\ trafo' = TrafoMatrix(g, v)
         /\ UNCHANGED trafoInv

\* update_trafo without its early return
update_trafo_unguarded(g, v) ==
    /\ trafo' = TrafoMatrix(g, v)
    /\ trafoInv' = MatrixInverse(TrafoMatrix(g, v))

\* CurverBase.update_trafo() for the graph area g and the viewport v
update_trafo(g, v) ==
    IF TrafoDegenerate(g, v)
    THEN UNCHANGED <<trafo, trafoInv>>
    ELSE \E m \in {TrafoMatrix(g, v)} :
             /\ trafo' = m
             /\ trafoInv' = MatrixInverse(m)

\* A zoom that keeps the left edge of the box
zoom_bbox_from_left(b, factor) ==
    BBox(b.ll, <<Add(b.ll[1], Div(BBoxWidth(b), factor)), b.ur[2]>>)

\* zoom_bbox_in_place of motion_editor.js and spline_editor.js
zoom_bbox_in_place(b, factor) ==
    LET mid == Mul(Frac(1, 2), Add(b.ll[1], b.ur[1]))
        left == Add(Mul(Div(Num(1), factor), Sub(b.ll[1], mid)), mid)
        right == Add(Mul(Div(Num(1), factor), Sub(b.ur[1], mid)), mid)
    IN  BBox(<<left, b.ll[2]>>, <<right, b.ur[2]>>)

\* The graph area before the element is attached to a page
Unattached == [clientWidth |-> 0, clientHeight |-> 0]

\* Editor.update_default_bbox(): one second wide, as high as the motor is long
defaultBbox == BBox(<<Num(0), Num(0)>>, <<Num(100 * INTERVAL), Num(MotorLength)>>)

\* No drag gesture is under way, none was made yet
NoDrag == [on |-> FALSE, made |-> 0]

\* The objects of a step, once it is over
Commit(h, hs, cont, pend) ==
    LET m == Collect(h, hs, cont, pend)
    IN  /\ heap' = m.heap
        /\ hist' = m.hist
        /\ content' = m.content
        /\ pending' = m.pending

\* Editor.update_ui(): the buttons follow the history and the transport
update_ui ==
    /\ saveDisabled' = ~(HistoryLength(hist') > 1)
    /\ undoDisabled' = ~Undoable(hist', cursor')
    /\ redoDisabled' = ~Redoable(hist', cursor')
    /\ stopDisabled' = (state' = RECORDING)
    /\ recDisabled' = (state' = PLAYING)

\* Editor.draw_current_spline() with the viewport v: the viewport grows to
\* the ordinates of the current spline, update_trafo(), the duration of the
\* transport, update_ui().  With no snapshot at the cursor, reading
\* current.min is a TypeError and the rest is not run.
draw_current_spline_in(v) ==
    IF Retrieve(hist', cursor') = NoRef
    THEN /\ viewport' = v
         /\ UNCHANGED <<duration, uiVars, trafo, trafoInv>>
    ELSE LET current == Retrieve(hist', cursor')
         IN  /\ \E min \in {Num(SplineMin(heap', current))},
                   max \in {Num(SplineMax(heap', current))} :
                    viewport' = BBox(<<v.ll[1], MathMin(v.ll[2], min)>>,
                                     <<v.ur[1], MathMax(v.ur[2], max)>>)
             /\ update_trafo(graph, viewport')
             /\ duration' = SplineEnd(heap', current)
             /\ update_ui

draw_current_spline == draw_current_spline_in(viewport)

\* spline_changed(workingCopy) with a capture that keeps the snapshots after
\* the cursor
spline_changed_keep_tail(h, wc, pend) ==
    /\ Commit(restrict_to_bbox(h, wc, limits(limitOn)),
              Append(hist, wc), content, Overtake(pend, "save"))
    /\ cursor' = Len(hist)
    /\ lastOp' = Op("capture", NoMark, 0)
    /\ draw_current_spline

\* Editor.spline_changed(workingCopy), h being the heap the copy lives in
\* and pend the requests in flight when it is called
spline_changed(h, wc, pend) ==
    /\ Commit(restrict_to_bbox(h, wc, limits(limitOn)),
              CaptureHist(hist, cursor, wc), content, Overtake(pend, "save"))
    /\ cursor' = CaptureCursor(hist, cursor, wc)
    /\ lastOp' = Op("capture", NoMark, Len(hist) - (cursor + 1))
    /\ draw_current_spline

\* Editor.load_spline(spline), h being the heap and cont the list
load_spline_with(h, cont, spline, pend) ==
    /\ Commit(h, CaptureHist(ClearedHist, ClearedCursor, spline), cont,
              Overtake(pend, "fit_spline"))
    /\ cursor' = CaptureCursor(ClearedHist, ClearedCursor, spline)
    /\ lastOp' = Op("load", NoMark, Len(hist))
    /\ \E bbox \in {expand_by_bbox(SplineBBox(heap', Retrieve(hist', cursor')),
                                      defaultBbox)} :
           draw_current_spline_in(bbox)

load_spline(h, cont, spline) == load_spline_with(h, cont, spline, pending)

KnotsInBounds(xs) == \A i \in DOMAIN xs : xs[i] <= MaxKnot
CoeffsInBounds(cs) == \A v \in FlatCoeffs(cs) : v <= MaxCoef
CoeffsDivisible(cs, num, den) == \A r \in DOMAIN cs : Divisible(num, den, cs[r])

\* What every edit button does around its edit: return when the history is
\* empty, spline_changing() (which stops the playback), the edit, and
\* spline_changed(newSpline).  h is the heap with the new arrays, wc the new
\* spline.
EditButton(h, wc) ==
    /\ HistoryLength(hist) > 0
    /\ cursor + 2 <= MaxHist
    /\ Len(pending) + Len(stop_spline_playback(state)) <= MaxPending
    /\ UNCHANGED <<state, position, looping, startTime, fsmError>>
    /\ UNCHANGED <<recordedTrajectory, selected, toolVars, clock, lastMessage, editorVars, auto>>
    /\ spline_changed(h, wc, pending \o stop_spline_playback(state))

\* scale_spline(spline, num / den): new coefficients, the knots of spline
ScaleButton(num, den) ==
    LET cur == Retrieve(hist, cursor)
        n == Fresh(DOMAIN heap)
    IN  /\ HistoryLength(hist) > 0
        /\ CoeffsDivisible(Coeffs(heap, cur), num, den)
        /\ CoeffsInBounds(ScaledCoeffs(Coeffs(heap, cur), num, den))
        /\ EditButton(Store(heap, n, ScaledCoeffs(Coeffs(heap, cur), num, den)),
                      [c |-> n, x |-> cur.x])

\* stretch_spline(spline, num / den): new knots, the coefficients of spline
StretchButton(num, den) ==
    LET cur == Retrieve(hist, cursor)
        n == Fresh(DOMAIN heap)
    IN  /\ HistoryLength(hist) > 0
        /\ Divisible(num, den, Knots(heap, cur))
        /\ KnotsInBounds(StretchedKnots(Knots(heap, cur), num, den))
        /\ EditButton(Store(heap, n, <<StretchedKnots(Knots(heap, cur), num, den)>>),
                      [c |-> cur.c, x |-> n])

\* shift_spline(spline, offset): new knots, the coefficients of spline
ShiftButton(offset) ==
    LET cur == Retrieve(hist, cursor)
        n == Fresh(DOMAIN heap)
    IN  /\ HistoryLength(hist) > 0
        /\ KnotsInBounds(ShiftedKnots(Knots(heap, cur), offset))
        /\ EditButton(Store(heap, n, <<ShiftedKnots(Knots(heap, cur), offset)>>),
                      [c |-> cur.c, x |-> n])

ScaleDown == ScaleButton(1, 2)
ScaleUp == ScaleButton(2, 1)
SpeedUp == StretchButton(1, 2)
SlowDown == StretchButton(2, 1)
RemoveDelay == ShiftButton(<<"-inf", 0>>)
ShiftLeft == ShiftButton(<<"fin", -DEFAULT_KNOT_SHIFT>>)
ShiftRight == ShiftButton(<<"fin", DEFAULT_KNOT_SHIFT>>)

\* The "clear" button: spline_changed(zero_spline(ndim))
ResetMotion ==
    LET nc == Fresh(DOMAIN heap)
        nx == Fresh(DOMAIN heap \cup {nc})
    IN  EditButton(Store(Store(heap, nc, ZeroCoeffs), nx, <<ZeroKnots>>),
                   [c |-> nc, x |-> nx])

(***************************************************************************)
(* The spline list (SplineList of static/js/curver.js).                    *)
(***************************************************************************)
\* The motions the backend holds when the editor connects.
LibraryArrays == <<  << <<0>>, <<MotorLength + 2>> >>,  << <<0, 4>> >>,
                     << <<0>>, <<2>> >>,  << <<0, 2>> >>  >>
LibraryRefs(base) == << [c |-> base + 1, x |-> base + 2],
                        [c |-> base + 3, x |-> base + 4] >>
HeapTop(h) == IF DOMAIN h = {} THEN 0 ELSE SetMax(DOMAIN h)

\* reload_spline_list() at start-up: populate(), update_spline_list() and the
\* preselection of the latest entry, which is loaded into the editor
PopulateList ==
    LET base == HeapTop(heap)
        lib == LibraryRefs(base)
        h == [i \in DOMAIN heap \cup {base + k : k \in DOMAIN LibraryArrays} |->
                IF i \in DOMAIN heap THEN heap[i] ELSE LibraryArrays[i - base]]
    IN  /\ content = << >>
        /\ selected = NoName
        /\ selected' = Len(lib)
        /\ UNCHANGED <<state, position, looping, startTime, fsmError,
                       recordedTrajectory, toolVars, clock, lastMessage, editorVars, auto>>
        /\ load_spline(h, lib, lib[Len(lib)])

\* Click on the list entry n: ask before discarding unsaved edits, select
\* the entry and load its spline.  (A declined confirmation and a click on
\* the selected entry change nothing.)
ListClick ==
    \E n \in DOMAIN content :
        /\ n # selected
        /\ content[n] # NoRef
        /\ selected' = n
        /\ UNCHANGED <<state, position, looping, startTime, fsmError,
                       recordedTrajectory, toolVars, clock, lastMessage, editorVars, auto>>
        /\ load_spline(heap, content, content[n])

(***************************************************************************)
(* Save (motion_editor.js 212-225).                                        *)
(***************************************************************************)
SaveClick ==
    /\ ~saveDisabled
    /\ HistoryLength(hist) > 0
    /\ Len(pending) < MaxPending
    /\ Cardinality({i \in DOMAIN pending : pending[i].kind = "save"}) < MaxSaves
    /\ pending' = Append(pending, [Req("save") EXCEPT
                                      !.spline = Retrieve(hist, cursor),
                                      !.name = selected])
    /\ UNCHANGED <<heap, histVars, transportVars, recordedTrajectory, listVars,
                   toolVars, uiVars, clock, lastMessage, lastOp, editorVars, viewVars, auto>>

\* The rest of the save handler, run when update_spline has answered; pend
\* are the requests still in flight.  With no entry selected the assignment
\* to selectedSpline.content is a TypeError and update_ui() is not reached.
SaveDone(req, pend) ==
    /\ cursor' = CaptureCursor(ClearedHist, ClearedCursor, req.spline)
    /\ lastOp' = Op("save", NoMark, Len(hist))
    /\ UNCHANGED <<transportVars, recordedTrajectory, selected, toolVars, clock, lastMessage,
                   editorVars, viewVars, auto>>
    /\ IF selected = NoName
       THEN /\ Commit(heap, CaptureHist(ClearedHist, ClearedCursor, req.spline),
                      content, pend)
            /\ UNCHANGED uiVars
       ELSE /\ Commit(heap, CaptureHist(ClearedHist, ClearedCursor, req.spline),
                      [content EXCEPT ![selected] = req.spline], pend)
            /\ update_ui

\* The delete button of the list (curver.js 327-339), the deletion being
\* confirmed: delete_spline(this.selected) is sent
DeleteClick ==
    /\ selected # NoName
    /\ content[selected] # NoRef
    /\ Len(pending) < MaxPending
    /\ pending' = Append(pending, [Req("delete") EXCEPT !.name = selected])
    /\ UNCHANGED <<heap, histVars, transportVars, recordedTrajectory, listVars,
                   toolVars, uiVars, clock, lastMessage, lastOp, editorVars,
                   viewVars, auto>>

\* The response to delete_spline: if it is ok, nothing is selected any more
\* and reload_spline_list() fetches the motions, of which the backend has
\* deleted the one named in the request
DeleteResponseOf(i, ok) ==
    /\ pending[i].kind = "delete"
    /\ IF ok
       THEN /\ selected' = NoName
            /\ pending' = Append(Remove(pending, i),
                                 [Req("fetch") EXCEPT !.name = pending[i].name])
       ELSE /\ pending' = Remove(pending, i)
            /\ UNCHANGED selected
    /\ UNCHANGED <<heap, histVars, transportVars, recordedTrajectory, content,
                   toolVars, uiVars, clock, lastMessage, lastOp, editorVars,
                   viewVars, auto>>

DeleteResponse == \E i \in DOMAIN pending, ok \in BOOLEAN : DeleteResponseOf(i, ok)

\* reload_spline_list() after fetch_splines: populate(res),
\* update_spline_list() and update_spline_list_selection(), which
\* preselects the latest motion if none is selected and loads it into the
\* editor (draw_selected_spline)
FetchResponseOf(i) ==
    LET gone == pending[i].name
        cont == IF gone = NoName THEN content ELSE [content EXCEPT ![gone] = NoRef]
        present == {n \in DOMAIN cont : cont[n] # NoRef}
    IN  /\ pending[i].kind = "fetch"
        /\ UNCHANGED <<state, position, looping, startTime, fsmError,
                       recordedTrajectory, toolVars, clock, lastMessage,
                       editorVars, auto>>
        /\ IF selected = NoName /\ present # {}
           THEN /\ selected' = SetMax(present)
                /\ load_spline_with(heap, cont, cont[SetMax(present)],
                                    Remove(pending, i))
           ELSE /\ Commit(heap, hist, cont, Remove(pending, i))
                /\ UNCHANGED <<selected, cursor, duration, uiVars, lastOp,
                               viewVars>>

FetchResponse == \E i \in DOMAIN pending : FetchResponseOf(i)

(***************************************************************************)
(* Undo and redo (motion_editor.js 833-850).                               *)
(***************************************************************************)
\* A call of history.undo() / history.redo(): the cursor moves, and a call
\* made when it is not permitted is put on record
history_undo ==
    /\ contractViolation' = (contractViolation \/ ~Undoable(hist, cursor))
    /\ cursor' = UndoCursor(cursor)

history_redo ==
    /\ contractViolation' = (contractViolation \/ ~Redoable(hist, cursor))
    /\ cursor' = RedoCursor(cursor)

\* Editor.undo() without its guard
UndoUnguarded ==
    \E viaKey \in BOOLEAN :
        /\ viaKey \/ ~undoDisabled
        /\ cursor > ClearedCursor - MaxHist      \* the cursor's range is finite
        /\ Len(pending) + Len(stop_spline_playback(state)) <= MaxPending
        /\ UNCHANGED <<state, position, looping, startTime, fsmError,
                       recordedTrajectory, listVars, toolVars, clock, lastMessage, variant, center, dataBbox, graph, drag, auto>>
        /\ history_undo
        /\ lastOp' = Op("undo", SnapshotValue(heap, Retrieve(hist, cursor)), 0)
        /\ pending' = pending \o stop_spline_playback(state)
        /\ UNCHANGED <<heap, hist>>
        /\ draw_current_spline

\* Editor.undo(), from the undo button or ctrl-z (whose handler ends with
\* update_ui())
Undo ==
    \E viaKey \in BOOLEAN :
        /\ viaKey \/ ~undoDisabled
        /\ UNCHANGED <<state, position, looping, startTime, fsmError,
                       recordedTrajectory, listVars, toolVars, clock, lastMessage, variant, center, dataBbox, graph, drag, auto>>
        /\ IF Undoable(hist, cursor)
           THEN /\ Len(pending) + Len(stop_spline_playback(state)) <= MaxPending
                /\ history_undo
                /\ lastOp' = Op("undo", SnapshotValue(heap, Retrieve(hist, cursor)), 0)
                /\ pending' = pending \o stop_spline_playback(state)
                /\ UNCHANGED <<heap, hist>>
                /\ draw_current_spline
           ELSE /\ UNCHANGED <<heap, histVars, pending, duration, lastOp,
                               contractViolation, viewVars>>
                /\ IF viaKey THEN update_ui ELSE UNCHANGED uiVars

\* Editor.redo() moving the cursor to the last snapshot
RedoToLast ==
    \E viaKey \in BOOLEAN :
        /\ viaKey \/ ~redoDisabled
        /\ Redoable(hist, cursor)
        /\ Len(pending) + Len(stop_spline_playback(state)) <= MaxPending
        /\ UNCHANGED <<state, position, looping, startTime, fsmError,
                       recordedTrajectory, listVars, toolVars, clock, lastMessage, editorVars, auto>>
        /\ cursor' = Len(hist) - 1
        /\ lastOp' = Op(IF lastOp.op = "undo" THEN "undo_redo" ELSE "redo",
                      NoMark, 0)
        /\ pending' = pending \o stop_spline_playback(state)
        /\ UNCHANGED <<heap, hist>>
        /\ draw_current_spline

\* Editor.redo(), from the redo button or ctrl-shift-z
Redo ==
    \E viaKey \in BOOLEAN :
        /\ viaKey \/ ~redoDisabled
        /\ UNCHANGED <<state, position, looping, startTime, fsmError,
                       recordedTrajectory, listVars, toolVars, clock, lastMessage, variant, center, dataBbox, graph, drag, auto>>
        /\ IF Redoable(hist, cursor)
           THEN /\ Len(pending) + Len(stop_spline_playback(state)) <= MaxPending
                /\ history_redo
                /\ lastOp' = Op(IF lastOp.op = "undo" THEN "undo_redo" ELSE "redo",
                              NoMark, 0)
                /\ pending' = pending \o stop_spline_playback(state)
                /\ UNCHANGED <<heap, hist>>
                /\ draw_current_spline
           ELSE /\ UNCHANGED <<heap, histVars, pending, duration, lastOp,
                               contractViolation, viewVars>>
                /\ IF viaKey THEN update_ui ELSE UNCHANGED uiVars

(***************************************************************************)
(* Pointer events on the curve surface.                                    *)
(***************************************************************************)
ClickTimes == 0..MaxClick
ClickValues == {2}

\* svg "click" (motion_editor.js 122-132): the cursor is moved to the click
\* and a playing transport is restarted from there
Click ==
    \E t \in ClickTimes :
        /\ position' = t
        /\ IF state = PLAYING
           THEN /\ Len(pending) < MaxPending
                /\ pending' = pending \o play_current_spline(t)
           ELSE UNCHANGED pending
        /\ UNCHANGED <<heap, histVars, state, duration, looping, startTime,
                       fsmError, recordedTrajectory, listVars, toolVars, uiVars,
                       clock, lastMessage, lastOp, editorVars, viewVars, auto>>

\* svg "dblclick" (motion_editor.js 133-140): stop_spline_playback() and
\* insert_new_knot(evt), which returns when the history is empty and else
\* calls spline_changing(pos), copies the current spline, inserts the knot
\* into the copy and calls spline_changed(copy)
InsertKnot ==
    \E t \in ClickTimes, y \in ClickValues :
        LET cur == Retrieve(hist, cursor)
            stops == stop_spline_playback(state)
                     \o (IF HistoryLength(hist) = 0 THEN << >>
                         ELSE stop_spline_playback(state))
        IN  /\ Len(pending) + Len(stops) <= MaxPending
            /\ UNCHANGED <<state, looping, startTime, fsmError,
                           recordedTrajectory, selected, toolVars, clock, lastMessage,
                           editorVars, auto>>
            /\ IF HistoryLength(hist) = 0
               THEN /\ pending' = pending \o stops
                    /\ UNCHANGED <<heap, histVars, content, position, duration,
                                   uiVars, lastOp, viewVars>>
               ELSE /\ cursor + 2 <= MaxHist
                    /\ position' = IF livePreview THEN t ELSE position
                    /\ LET wc == CopyRef(heap, cur)
                           h1 == CopyHeap(heap, cur)
                           h2 == [h1 EXCEPT
                                    ![wc.c] = InsertedCoeffs(h1[wc.c], Knots(h1, wc), t, y),
                                    ![wc.x] = <<InsertedKnots(Knots(h1, wc), t)>>]
                       IN spline_changed(h2, wc, pending \o stops)

(***************************************************************************)
(* Transport controls.                                                     *)
(***************************************************************************)
\* Editor.toggle_playback(), from the play / pause button or the space key
\* (whose handler ends with update_ui())
TogglePlayback ==
    \E viaKey \in BOOLEAN :
        /\ viaKey \/ ~stopDisabled
        /\ Len(pending) < MaxPending
        /\ pending' = IF state = PLAYING
                      THEN pending \o stop_spline_playback(state)
                      ELSE pending \o play_current_spline(position)
        /\ UNCHANGED <<heap, histVars, transportVars, recordedTrajectory,
                       listVars, toolVars, clock, lastMessage, lastOp, editorVars, viewVars, auto>>
        /\ IF viaKey THEN update_ui ELSE UNCHANGED uiVars

\* The stop button (motion_editor.js 278-281): stop_spline_playback() and
\* transport.stop()
StopButton ==
    /\ ~stopDisabled
    /\ Len(pending) + Len(stop_spline_playback(state)) <= MaxPending
    /\ pending' = pending \o stop_spline_playback(state)
    /\ state' = TransportAfter("stop", state)
    /\ UNCHANGED <<heap, histVars, position, duration, looping, startTime,
                   fsmError, recordedTrajectory, listVars, toolVars, uiVars,
                   clock, lastMessage, lastOp, editorVars, viewVars, auto>>

\* The loop button / the "l" key: transport.toggle_looping(), update_ui()
ToggleLoop ==
    /\ looping' = ~looping
    /\ UNCHANGED <<heap, histVars, state, position, duration, startTime,
                   fsmError, pending, recordedTrajectory, listVars, toolVars,
                   clock, lastMessage, lastOp, editorVars, viewVars, auto>>
    /\ update_ui

\* Editor.start_recording() up to its await.  transport.record() in a state
\* other than PAUSED ends the function.
start_recording ==
    IF TransportLegal("record", state)
    THEN /\ state' = TransportAfter("record", state)
         /\ auto' = TRUE
         /\ pending' = Append(pending, Req("disable_motors"))
         /\ UNCHANGED fsmError
    ELSE /\ fsmError' = TRUE
         /\ UNCHANGED <<state, pending, auto>>

\* Editor.stop_recording() up to its first await
stop_recording ==
    /\ state' = TransportAfter("stop", state)
    /\ auto' = FALSE
    /\ pending' = Append(pending, Req("enable_motors"))
    /\ UNCHANGED fsmError

\* Editor.toggle_recording(), from the record button or the "r" key
ToggleRecording ==
    \E viaKey \in BOOLEAN :
        /\ viaKey \/ ~recDisabled
        /\ Len(pending) < MaxPending
        /\ IF state = RECORDING THEN stop_recording ELSE start_recording
        /\ UNCHANGED <<heap, histVars, position, duration, looping, startTime,
                       recordedTrajectory, listVars, toolVars, clock, lastMessage, lastOp,
                       editorVars, viewVars>>
        /\ IF viaKey THEN update_ui ELSE UNCHANGED uiVars

\* The limit and the live preview switches
ToggleLimit ==
    /\ limitOn' = ~limitOn
    /\ UNCHANGED <<heap, histVars, transportVars, pending, recordedTrajectory,
                   listVars, livePreview, uiVars, clock, lastMessage, lastOp,
                   editorVars, viewVars, auto>>

ToggleLivePreview ==
    /\ livePreview' = ~livePreview
    /\ UNCHANGED <<heap, histVars, transportVars, pending, recordedTrajectory,
                   listVars, limitOn, uiVars, clock, lastMessage, lastOp, editorVars, viewVars, auto>>

(***************************************************************************)
(* Messages of the backend.                                                *)
(***************************************************************************)
\* Editor.new_data(msg) without the stop at the end of the motion
TickKeepsPlayingUpTo(horizon) ==
    LET ts == clock + INTERVAL
        t == MovePosition(ts, startTime, looping, duration)
    IN  /\ ts <= horizon
        /\ state = RECORDING => Len(recordedTrajectory) < MaxTraj
        /\ clock' = ts
        /\ lastMessage' = "passed"
        /\ position' = t
        /\ recordedTrajectory' = IF state = RECORDING
                                 THEN Append(recordedTrajectory, t)
                                 ELSE recordedTrajectory
        /\ UNCHANGED <<heap, state, histVars, uiVars, duration, looping,
                       startTime, fsmError, pending, listVars, toolVars,
                       lastOp, editorVars, viewVars, auto>>

TickKeepsPlaying == TickKeepsPlayingUpTo(MaxTime)

\* Editor.new_data(msg): the clock has advanced and msg.timestamp is its
\* value, which is at most the horizon
TickUpTo(horizon) ==
    LET ts == clock + INTERVAL
        t == MovePosition(ts, startTime, looping, duration)
    IN  /\ ts <= horizon
        /\ state = RECORDING => Len(recordedTrajectory) < MaxTraj
        /\ clock' = ts
        /\ lastMessage' = IF state = PLAYING /\ t > duration THEN "stopped" ELSE "passed"
        /\ position' = t
        /\ IF state = PLAYING /\ t > duration
           THEN /\ state' = TransportAfter("stop", state)
                /\ UNCHANGED histVars
                /\ update_ui
           ELSE UNCHANGED <<state, histVars, uiVars>>
        /\ recordedTrajectory' = IF state = RECORDING
                                 THEN Append(recordedTrajectory, t)
                                 ELSE recordedTrajectory
        /\ UNCHANGED <<heap, duration, looping, startTime, fsmError,
                       pending, listVars, toolVars, lastOp,
                       editorVars, viewVars, auto>>

Tick == TickUpTo(MaxTime)

\* Editor.new_behavior_message(behavior) stopping the transport whatever
\* behavior.active is
new_behavior_message_always(active) ==
    /\ lastMessage' = IF state # PAUSED THEN "forced" ELSE "passed"
    /\ UNCHANGED <<heap, histVars, position, duration, looping, startTime,
                   fsmError, pending, recordedTrajectory, listVars, toolVars,
                   clock, lastOp, editorVars, viewVars, auto>>
    /\ state' = TransportAfter("stop", state)
    /\ update_ui

\* Editor.new_behavior_message(behavior): an active behavior stops the
\* transport, update_ui()
new_behavior_message(active) ==
    /\ lastMessage' = IF active /\ state # PAUSED THEN "forced" ELSE "passed"
    /\ UNCHANGED <<heap, histVars, position, duration, looping, startTime,
                   fsmError, pending, recordedTrajectory, listVars, toolVars,
                   clock, lastOp, editorVars, viewVars, auto>>
    /\ IF active
       THEN /\ state' = TransportAfter("stop", state)
            /\ update_ui
       ELSE UNCHANGED <<state, uiVars>>

BehaviorMessage == \E active \in BOOLEAN : new_behavior_message(active)

(***************************************************************************)
(* Responses of the backend: the rest of the handler that awaited them.    *)
(***************************************************************************)
\* play_current_spline() after its await with the start time taken as
\* returned
PlayDoneUnshifted ==
    /\ startTime' = clock
    /\ UNCHANGED <<position, duration, looping, recordedTrajectory, selected,
                   cursor, toolVars, clock, lastMessage, lastOp, editorVars, viewVars, auto>>
    /\ IF TransportLegal("play", state)
       THEN /\ state' = TransportAfter("play", state)
            /\ UNCHANGED fsmError
            /\ update_ui
       ELSE /\ fsmError' = TRUE
            /\ UNCHANGED <<state, uiVars>>

\* play_current_spline() after its await: the start time is anchored and
\* transport.play() is called
PlayDone ==
    /\ startTime' = clock + INTERVAL
    /\ UNCHANGED <<position, duration, looping, recordedTrajectory, selected,
                   cursor, toolVars, clock, lastMessage, lastOp, editorVars, viewVars, auto>>
    /\ IF TransportLegal("play", state)
       THEN /\ state' = TransportAfter("play", state)
            /\ UNCHANGED fsmError
            /\ update_ui
       ELSE /\ fsmError' = TRUE
            /\ UNCHANGED <<state, uiVars>>

PlayResponseOf(i) ==
    /\ pending[i].kind = "play"
    /\ Commit(heap, hist, content,
              Remove(OvertakeBefore(pending, i, "stop"), i))
    /\ PlayDone

PlayResponse == \E i \in DOMAIN pending : PlayResponseOf(i)

\* stop_spline_playback() after its await: transport.pause() is called
StopDone ==
    /\ IF TransportLegal("pause", state)
       THEN /\ state' = TransportAfter("pause", state)
            /\ UNCHANGED <<fsmError, histVars>>
            /\ update_ui
       ELSE /\ fsmError' = TRUE
            /\ UNCHANGED <<state, histVars, uiVars>>
    /\ UNCHANGED <<position, duration, looping, startTime, recordedTrajectory,
                   listVars, toolVars, clock, lastMessage, lastOp, editorVars, viewVars, auto>>

StopResponseOf(i) ==
    /\ pending[i].kind = "stop"
    /\ pending' = Remove(pending, i)
    /\ StopDone
    /\ UNCHANGED heap

StopResponse == \E i \in DOMAIN pending : StopResponseOf(i)

\* start_recording() after its await: update_ui()
DisableMotorsResponse ==
    \E i \in DOMAIN pending :
        /\ pending[i].kind = "disable_motors"
        /\ pending' = Remove(pending, i)
        /\ UNCHANGED <<heap, histVars, transportVars, recordedTrajectory,
                       listVars, toolVars, clock, lastMessage, lastOp, editorVars, viewVars, auto>>
        /\ update_ui

\* stop_recording() after enable_motors: return when nothing was recorded,
\* else ask the backend to fit a spline through the trajectory
EnableMotorsResponse ==
    \E i \in DOMAIN pending :
        /\ pending[i].kind = "enable_motors"
        /\ pending' = IF Len(recordedTrajectory) = 0
                      THEN Remove(pending, i)
                      ELSE Append(Remove(pending, i), Req("fit_spline"))
        /\ UNCHANGED <<heap, histVars, transportVars, recordedTrajectory,
                       listVars, toolVars, uiVars, clock, lastMessage, lastOp,
                       editorVars, viewVars, auto>>

\* The spline the backend fits through a trajectory
FitCoeffs == << <<0>>, <<1>> >>
FitKnots == <<0, 2>>

\* stop_recording() after fit_spline: the trajectory is cleared and the
\* fitted spline is captured and drawn
FitDone(pend) ==
    LET nc == Fresh(DOMAIN heap)
        nx == Fresh(DOMAIN heap \cup {nc})
        spline == [c |-> nc, x |-> nx]
    IN  /\ recordedTrajectory' = << >>
        /\ Commit(Store(Store(heap, nc, FitCoeffs), nx, <<FitKnots>>),
                  CaptureHist(hist, cursor, spline), content, pend)
        /\ cursor' = CaptureCursor(hist, cursor, spline)
        /\ lastOp' = Op("fit", NoMark, Len(hist) - (cursor + 1))
        /\ UNCHANGED <<state, position, looping, startTime, fsmError, selected,
                       toolVars, clock, lastMessage, editorVars, auto>>
        /\ draw_current_spline

FitResponseOf(i) ==
    /\ pending[i].kind = "fit_spline"
    /\ cursor + 2 <= MaxHist
    /\ FitDone(Remove(pending, i))

FitResponse == \E i \in DOMAIN pending : FitResponseOf(i)

\* fit_spline fails: the error is logged, update_ui()
FitFailure ==
    \E i \in DOMAIN pending :
        /\ pending[i].kind = "fit_spline"
        /\ pending' = Remove(pending, i)
        /\ UNCHANGED <<heap, histVars, transportVars, recordedTrajectory,
                       listVars, toolVars, clock, lastMessage, lastOp, editorVars, viewVars, auto>>
        /\ update_ui

SaveResponseOf(i) ==
    /\ pending[i].kind = "save"
    /\ SaveDone(pending[i], Remove(pending, i))

SaveResponse == \E i \in DOMAIN pending : SaveResponseOf(i)

\* Any other request fails: the awaiting handler ends with the rejection
RequestFailureOf(i) ==
    /\ pending[i].kind # "fit_spline"
    /\ Commit(heap, hist, content, Remove(pending, i))
    /\ UNCHANGED <<cursor, transportVars, recordedTrajectory, selected,
                   toolVars, uiVars, clock, lastMessage, lastOp, editorVars, viewVars, auto>>

RequestFailure == \E i \in DOMAIN pending : RequestFailureOf(i)

(***************************************************************************)
(* The older editor (static/js/spline_editor.js).  It has no guard in its   *)
(* undo / redo handlers: the buttons are disabled by update_ui().          *)
(***************************************************************************)
\* update_ui() of spline_editor.js leaving the undo / redo buttons enabled
legacy_update_ui_enabled ==
    /\ undoDisabled' = FALSE
    /\ redoDisabled' = FALSE
    /\ UNCHANGED <<saveDisabled, stopDisabled, recDisabled>>

\* Editor.update_ui() of spline_editor.js
legacy_update_ui ==
    /\ undoDisabled' = ~Undoable(hist', cursor')
    /\ redoDisabled' = ~Redoable(hist', cursor')
    /\ UNCHANGED <<saveDisabled, stopDisabled, recDisabled>>

\* Editor.draw_current_spline() of spline_editor.js: set_duration(current.end)
\* and update_ui(); with no snapshot at the cursor current.end is a TypeError
legacy_draw_current_spline ==
    IF Retrieve(hist', cursor') = NoRef
    THEN UNCHANGED <<duration, uiVars>>
    ELSE /\ duration' = SplineEnd(heap', Retrieve(hist', cursor'))
         /\ legacy_update_ui

\* Editor.stop_spline_playback() of spline_editor.js up to its await: the
\* request is issued in every state
legacy_stop_spline_playback == <<Req("stop")>>

\* The undo button: history.undo(), stop_spline_playback(),
\* draw_current_spline().  A disabled button takes no click.
LegacyUndoClick ==
    /\ variant = SPLINE_EDITOR
    /\ ~undoDisabled
    /\ Len(pending) + Len(legacy_stop_spline_playback) <= MaxPending
    /\ cursor > ClearedCursor - MaxHist          \* the cursor's range is finite
    /\ history_undo
    /\ lastOp' = Op("undo", SnapshotValue(heap, Retrieve(hist, cursor)), 0)
    /\ pending' = pending \o legacy_stop_spline_playback
    /\ UNCHANGED <<heap, hist, state, position, looping, startTime, fsmError,
                   recordedTrajectory, listVars, toolVars, clock, lastMessage, variant, center, curverVars, auto>>
    /\ legacy_draw_current_spline

\* The redo button: history.redo(), stop_spline_playback(),
\* draw_current_spline()
LegacyRedoClick ==
    /\ variant = SPLINE_EDITOR
    /\ ~redoDisabled
    /\ Len(pending) + Len(legacy_stop_spline_playback) <= MaxPending
    /\ cursor < 2 * MaxHist                      \* the cursor's range is finite
    /\ history_redo
    /\ lastOp' = Op(IF lastOp.op = "undo" THEN "undo_redo" ELSE "redo", NoMark, 0)
    /\ pending' = pending \o legacy_stop_spline_playback
    /\ UNCHANGED <<heap, hist, state, position, looping, startTime, fsmError,
                   recordedTrajectory, listVars, toolVars, clock, lastMessage, variant, center, curverVars, auto>>
    /\ legacy_draw_current_spline

\* svg "dblclick" of spline_editor.js: stop_spline_playback() and
\* insert_new_knot(evt), which copies the current spline, inserts the knot
\* and calls spline_changed(copy): capture and draw_current_spline()
LegacyInsertKnot ==
    \E t \in ClickTimes, y \in ClickValues :
        LET cur == Retrieve(hist, cursor)
            pend == pending \o legacy_stop_spline_playback
        IN  /\ variant = SPLINE_EDITOR
            /\ Len(pend) <= MaxPending
            /\ UNCHANGED <<state, position, looping, startTime, fsmError,
                           recordedTrajectory, selected, toolVars, clock, lastMessage,
                           editorVars, viewVars, auto>>
            /\ IF HistoryLength(hist) = 0
               THEN /\ pending' = pend
                    /\ UNCHANGED <<heap, histVars, content, duration, uiVars,
                                   lastOp>>
               ELSE /\ cursor + 2 <= MaxHist
                    /\ LET wc == CopyRef(heap, cur)
                           h1 == CopyHeap(heap, cur)
                           h2 == [h1 EXCEPT
                                    ![wc.c] = InsertedCoeffs(h1[wc.c], Knots(h1, wc), t, y),
                                    ![wc.x] = <<InsertedKnots(Knots(h1, wc), t)>>]
                       IN  /\ Commit(h2, CaptureHist(hist, cursor, wc), content, pend)
                           /\ cursor' = CaptureCursor(hist, cursor, wc)
                           /\ lastOp' = Op("capture", NoMark, Len(hist) - (cursor + 1))
                           /\ legacy_draw_current_spline

\* The play / pause button of spline_editor.js up to the await of
\* stop_spline_playback() or play_current_spline()
LegacyPlayPause ==
    /\ variant = SPLINE_EDITOR
    /\ Len(pending) < MaxPending
    /\ pending' = IF state = PLAYING
                  THEN pending \o legacy_stop_spline_playback
                  ELSE pending \o play_current_spline(position)
    /\ UNCHANGED <<heap, histVars, transportVars, recordedTrajectory, listVars,
                   toolVars, uiVars, clock, lastMessage, lastOp, editorVars, viewVars, auto>>

\* play_current_spline() of spline_editor.js after its await
LegacyPlayResponse ==
    \E i \in DOMAIN pending :
        /\ variant = SPLINE_EDITOR
        /\ pending[i].kind = "play"
        /\ Commit(heap, hist, content,
                  Remove(OvertakeBefore(pending, i, "stop"), i))
        /\ startTime' = clock + INTERVAL
        /\ IF TransportLegal("play", state)
           THEN state' = TransportAfter("play", state) /\ UNCHANGED fsmError
           ELSE fsmError' = TRUE /\ UNCHANGED state
        /\ UNCHANGED <<cursor, position, duration, looping, recordedTrajectory,
                       selected, toolVars, uiVars, clock, lastMessage, lastOp, editorVars, viewVars, auto>>

\* stop_spline_playback() of spline_editor.js after its await:
\* transport.pause()
LegacyStopResponse ==
    \E i \in DOMAIN pending :
        /\ variant = SPLINE_EDITOR
        /\ pending[i].kind = "stop"
        /\ pending' = Remove(pending, i)
        /\ IF TransportLegal("pause", state)
           THEN state' = TransportAfter("pause", state) /\ UNCHANGED fsmError
           ELSE fsmError' = TRUE /\ UNCHANGED state
        /\ UNCHANGED <<heap, histVars, position, duration, looping, startTime,
                       recordedTrajectory, listVars, toolVars, uiVars, clock, lastMessage,
                       lastOp, editorVars, viewVars, auto>>

(***************************************************************************)
(* The NotificationCenter of notification_center.js. A notification of     *)
(* alertify is the record of what it shows; its field motor names the      *)
(* motor whose homing state it reports. An object keyed by numbers is a    *)
(* function on its keys.                                                   *)
(***************************************************************************)
MaxNotifications == 4
MotorIds == {1, 2}
BlockType == "LinearMotor"
HomingValues == 0..3

\* the first motor has a name of its own, the second the name of its block
MotorName(id) == IF id = 1 THEN "Arm" ELSE BlockType

\* the motor objects of the messages
Motors ==
    {[id |-> id, name |-> MotorName(id), blockType |-> BlockType, homing |-> value] :
        id \in MotorIds, value \in HomingValues}
Undefined == 0 - 1
DefaultNumber == 0

\* the fields of a NotificationCenter after its constructor
NewNotificationCenter ==
    [idCounter |-> 1, persistentNotifications |-> << >>, beenSaid |-> << >>,
     motorNotifications |-> << >>, motorNames |-> << >>]

\* key in obj, for a number key
HasKey(obj, key) == key \in DOMAIN obj

\* msg in obj, for a string msg: a property name is the numeral of its key
HasKeyString(obj, msg) == \E k \in DOMAIN obj : ToString(k) = msg

\* obj[key] = value
Put(obj, key, value) == (key :> value) @@ obj

\* delete obj[key]
Delete(obj, key) == [k \in DOMAIN obj \ {key} |-> obj[k]]

\* obj[key] of a defaultdict(Number)
GetDefault(obj, key) == IF HasKey(obj, key) THEN obj[key] ELSE DefaultNumber

object_size(obj) == Cardinality(DOMAIN obj)

remodel_notification(noti, msg, type, wait) ==
    [noti EXCEPT !.msg = msg, !.type = type, !.wait = wait]

\* notify_persistent that never looks for the notification of the id
notify_persistent_anew(c, msg, type, wait, given, motor) ==
    [center |-> [c EXCEPT !.idCounter = @ + 1,
                          !.beenSaid = Put(@, c.idCounter, msg),
                          !.persistentNotifications =
                              Put(@, c.idCounter,
                                  [msg |-> msg, type |-> type, wait |-> wait,
                                   motor |-> motor])],
     id |-> c.idCounter]

\* NotificationCenter.notify_persistent: the center afterwards and the id
\* returned; an undefined id takes the default of the parameter
notify_persistent(c, msg, type, wait, given, motor) ==
    LET id == IF given = Undefined THEN 0 ELSE given
    IN  IF HasKeyString(c.beenSaid, msg)
        THEN [center |-> c, id |-> Undefined]
        ELSE IF HasKey(c.persistentNotifications, id)
        THEN [center |-> [c EXCEPT !.persistentNotifications[id] =
                                       remodel_notification(@, msg, type, wait)],
              id |-> id]
        ELSE [center |-> [c EXCEPT !.idCounter = @ + 1,
                                   !.beenSaid = Put(@, c.idCounter, msg),
                                   !.persistentNotifications =
                                       Put(@, c.idCounter,
                                           [msg |-> msg, type |-> type,
                                            wait |-> wait, motor |-> motor])],
              id |-> c.idCounter]

\* the callback handed to alertify.notify, run when the notification goes
Dismissal(c, id) ==
    [c EXCEPT !.beenSaid = Delete(@, id),
              !.persistentNotifications = Delete(@, id)]

assign_motor_name(c, motor) ==
    IF HasKey(c.motorNames, motor.id)
    THEN c
    ELSE IF motor.name # motor.blockType
    THEN [c EXCEPT !.motorNames = Put(@, motor.id, motor.name)]
    ELSE [c EXCEPT !.motorNames =
                       Put(@, motor.id,
                           "Motor " \o ToString(object_size(c.motorNames) + 1) \o " ")]

\* the message, type and wait time of the cases of motor.homing.value
HomingNotice(value) ==
    CASE value = 0 -> [text |-> " homing failed", type |-> "error", wait |-> 0]
      [] value = 1 -> [text |-> " unhomed", type |-> "warning", wait |-> 0]
      [] value = 2 -> [text |-> " homing ongoing", type |-> "warning", wait |-> 0]
      [] value = 3 -> [text |-> " homed", type |-> "success", wait |-> 2]

update_motor_notification(c, motor) ==
    LET named == assign_motor_name(c, motor)
        name == named.motorNames[motor.id]
        notice == HomingNotice(motor.homing)
        made == notify_persistent(named, name \o notice.text, notice.type,
                                  notice.wait,
                                  GetDefault(named.motorNotifications, motor.id),
                                  motor.id)
    IN  [made.center EXCEPT !.motorNotifications = Put(@, motor.id, made.id)]

(***************************************************************************)
(* The motion editor.                                                      *)
(***************************************************************************)
Init ==
    /\ heap = << >>
    /\ hist = ClearedHist
    /\ cursor = ClearedCursor
    /\ state = PAUSED
    /\ position = 0
    /\ duration = 0
    /\ looping = FALSE
    /\ startTime = 0
    /\ fsmError = FALSE
    /\ pending = << >>
    /\ recordedTrajectory = << >>
    /\ selected = NoName
    /\ content = << >>
    /\ limitOn = TRUE
    /\ livePreview = TRUE
    /\ saveDisabled = FALSE
    /\ undoDisabled = FALSE
    /\ redoDisabled = FALSE
    /\ stopDisabled = FALSE
    /\ recDisabled = FALSE
    /\ clock = 0
    /\ lastMessage = "passed"
    /\ lastOp = Op("none", NoMark, 0)
    /\ variant = MOTION_EDITOR
    /\ contractViolation = FALSE
    /\ viewport = MIN_VIEWPORT
    /\ dataBbox = DEFAULT_DATA_BBOX
    /\ graph = Unattached
    /\ trafo = IdentityMatrix
    /\ trafoInv = IdentityMatrix
    /\ auto = FALSE
    /\ drag = NoDrag
    /\ center = NewNotificationCenter

Next ==
    \/ PopulateList
    \/ ListClick
    \/ SaveClick
    \/ SaveResponse
    \/ Undo
    \/ Redo
    \/ ScaleDown
    \/ ScaleUp
    \/ SpeedUp
    \/ SlowDown
    \/ RemoveDelay
    \/ ShiftLeft
    \/ ShiftRight
    \/ ResetMotion
    \/ InsertKnot
    \/ Click
    \/ TogglePlayback
    \/ StopButton
    \/ ToggleLoop
    \/ ToggleRecording
    \/ ToggleLimit
    \/ ToggleLivePreview
    \/ Tick
    \/ BehaviorMessage
    \/ PlayResponse
    \/ StopResponse
    \/ DisableMotorsResponse
    \/ EnableMotorsResponse
    \/ FitResponse
    \/ FitFailure
    \/ RequestFailure

Spec == Init /\ [][Next]_vars

(***************************************************************************)
(* An editing session: the spline list, the edit buttons and undo / redo,  *)
(* with the transport at rest.                                             *)
(***************************************************************************)
NextEditing ==
    \/ PopulateList
    \/ ListClick
    \/ Undo
    \/ Redo
    \/ ScaleDown
    \/ ScaleUp
    \/ SpeedUp
    \/ SlowDown
    \/ RemoveDelay
    \/ ShiftLeft
    \/ ShiftRight
    \/ ResetMotion
    \/ InsertKnot
    \/ ToggleLimit

SpecEditing == Init /\ [][NextEditing]_vars

(***************************************************************************)
(* The history under edits of every kind (scale, stretch, shift, reset,    *)
(* inserted knot, load) and undo / redo.                                   *)
(***************************************************************************)
NextHistory ==
    \/ PopulateList
    \/ ListClick
    \/ Undo
    \/ Redo
    \/ ScaleDown
    \/ SpeedUp
    \/ ShiftRight
    \/ ResetMotion
    \/ InsertKnot
    \/ ToggleLimit

SpecHistory == Init /\ [][NextHistory]_vars

\* The motion list: selecting, editing and deleting motions
NextList ==
    \/ PopulateList
    \/ ListClick
    \/ ScaleDown
    \/ Undo
    \/ DeleteClick
    \/ DeleteResponse
    \/ FetchResponse

SpecList == Init /\ [][NextList]_vars

\* Playback under data messages that keep arriving.  The backend sends one
\* every INTERVAL for as long as it runs; messages up to the horizon are
\* followed, and a playback is begun only if its motion ends before the
\* horizon.
Horizon == 2 * MaxTime
EndsBeforeHorizon == clock + 2 * INTERVAL + duration <= Horizon
TickOfRun == TickUpTo(Horizon)
PlayResponseOfRun == EndsBeforeHorizon /\ PlayResponse

NextRun ==
    \/ PopulateList
    \/ ListClick /\ state = PAUSED /\ pending = << >>
    \/ TogglePlayback
    \/ PlayResponseOfRun
    \/ StopResponse
    \/ TickOfRun

SpecRun == Init /\ [][NextRun]_vars /\ WF_vars(TickOfRun)

(***************************************************************************)
(* A session of edits and saves: every operation of the history (load,     *)
(* capture, undo, redo, clear) with the save requests in flight.           *)
(***************************************************************************)
NextSave ==
    \/ PopulateList
    \/ ListClick
    \/ SaveClick
    \/ SaveResponse
    \/ RequestFailure
    \/ Undo
    \/ Redo
    \/ ScaleDown
    \/ ShiftRight

SpecSave == Init /\ [][NextSave]_vars

(***************************************************************************)
(* A playback session over the preselected motion.                         *)
(***************************************************************************)
NextTransport ==
    \/ PopulateList
    \/ Click
    \/ TogglePlayback
    \/ StopButton
    \/ ToggleLoop
    \/ Tick
    \/ BehaviorMessage
    \/ PlayResponse
    \/ StopResponse
    \/ RequestFailure

SpecTransport == Init /\ [][NextTransport]_vars

(***************************************************************************)
(* Playback followed by the data messages alone: nothing but move() writes *)
(* the position.                                                           *)
(***************************************************************************)
NextPlayback ==
    \/ PopulateList
    \/ TogglePlayback
    \/ ToggleLoop
    \/ Tick
    \/ PlayResponse
    \/ StopResponse

SpecPlayback == Init /\ [][NextPlayback]_vars

(***************************************************************************)
(* Playback and recording from the play and record controls.               *)
(***************************************************************************)
NextPlayRecord ==
    \/ PopulateList
    \/ TogglePlayback
    \/ ToggleRecording
    \/ Tick
    \/ PlayResponse
    \/ StopResponse
    \/ DisableMotorsResponse
    \/ EnableMotorsResponse
    \/ FitResponse
    \/ FitFailure

SpecPlayRecord == Init /\ [][NextPlayRecord]_vars

(***************************************************************************)
(* The play and record controls under the behavior notices of the backend. *)
(***************************************************************************)
NextNotices ==
    \/ PopulateList
    \/ TogglePlayback
    \/ ToggleRecording
    \/ BehaviorMessage
    \/ PlayResponse
    \/ StopResponse
    \/ DisableMotorsResponse
    \/ EnableMotorsResponse

SpecNotices == Init /\ [][NextNotices]_vars

(***************************************************************************)
(* A recording session with the spline list at hand.                       *)
(***************************************************************************)
NextRecording ==
    \/ PopulateList
    \/ ListClick
    \/ ToggleRecording
    \/ Tick
    \/ DisableMotorsResponse
    \/ EnableMotorsResponse
    \/ FitResponse
    \/ FitFailure
    \/ RequestFailure
    \/ Undo
    \/ Redo

SpecRecording == Init /\ [][NextRecording]_vars

(***************************************************************************)
(* The older editor after its constructor: load_spline(ZERO_SPLINE) and    *)
(* update_ui().                                                            *)
(***************************************************************************)
\* load_spline(ZERO_SPLINE) of the constructor: the data box
LegacyDataBbox ==
    expand_by_bbox(SplineBBox(<<ZeroCoeffs, <<ZeroKnots>>>>, [c |-> 1, x |-> 2]),
                   DEFAULT_DATA_BBOX)

InitLegacy ==
    /\ heap = <<ZeroCoeffs, <<ZeroKnots>>>>
    /\ hist = <<[c |-> 1, x |-> 2]>>
    /\ cursor = 0
    /\ state = PAUSED
    /\ position = 0
    /\ duration = ZeroKnots[Len(ZeroKnots)]
    /\ looping = FALSE
    /\ startTime = 0
    /\ fsmError = FALSE
    /\ pending = << >>
    /\ recordedTrajectory = << >>
    /\ selected = NoName
    /\ content = << >>
    /\ limitOn = TRUE
    /\ livePreview = TRUE
    /\ saveDisabled = FALSE
    /\ undoDisabled = TRUE
    /\ redoDisabled = TRUE
    /\ stopDisabled = FALSE
    /\ recDisabled = FALSE
    /\ clock = 0
    /\ lastMessage = "passed"
    /\ lastOp = Op("none", NoMark, 0)
    /\ variant = SPLINE_EDITOR
    /\ contractViolation = FALSE
    /\ dataBbox = LegacyDataBbox
    /\ viewport = LegacyDataBbox
    /\ graph = Unattached
    /\ trafo = IF TrafoDegenerate(Unattached, LegacyDataBbox)
               THEN IdentityMatrix ELSE TrafoMatrix(Unattached, LegacyDataBbox)
    /\ trafoInv = IF TrafoDegenerate(Unattached, LegacyDataBbox)
                  THEN IdentityMatrix
                  ELSE MatrixInverse(TrafoMatrix(Unattached, LegacyDataBbox))
    /\ auto = FALSE
    /\ drag = NoDrag
    /\ center = NewNotificationCenter

(***************************************************************************)
(* A session of the older editor.                                          *)
(***************************************************************************)
NextLegacy ==
    \/ LegacyUndoClick
    \/ LegacyRedoClick
    \/ LegacyInsertKnot
    \/ LegacyPlayPause
    \/ LegacyPlayResponse
    \/ LegacyStopResponse

SpecLegacy == InitLegacy /\ [][NextLegacy]_vars

(***************************************************************************)
(* The undo / redo triggers of either editor: a page hosts one of the two. *)
(***************************************************************************)
NextVariants ==
    \/ variant = MOTION_EDITOR /\ PopulateList
    \/ variant = MOTION_EDITOR /\ ListClick
    \/ variant = MOTION_EDITOR /\ Undo
    \/ variant = MOTION_EDITOR /\ Redo
    \/ variant = MOTION_EDITOR /\ ScaleDown
    \/ variant = MOTION_EDITOR /\ ShiftRight
    \/ variant = MOTION_EDITOR /\ InsertKnot
    \/ LegacyUndoClick
    \/ LegacyRedoClick
    \/ LegacyInsertKnot
    \/ LegacyStopResponse

SpecVariants == (Init \/ InitLegacy) /\ [][NextVariants]_vars

(***************************************************************************)
(* Properties.                                                             *)
(***************************************************************************)

\* C1: a stop request issued while Playing and overtaken by a play request
\* issued after it does not undo that play: when the response of the stop
\* request is handled after the response of the play request, a transport
\* that is Playing stays Playing.
C1_LateStopKeepsPlaying ==
    [][\A i \in DOMAIN pending :
          (/\ StopResponseOf(i)
           /\ pending[i].issuedIn = PLAYING
           /\ pending[i].overtaken
           /\ state = PLAYING)
          => state' = PLAYING]_vars

\* C2: a save response handled after an edit was captured (the capture being
\* the last operation on the history) leaves that edit the snapshot at the
\* cursor.
C2_LateSaveKeepsEdit ==
    [][\A i \in DOMAIN pending :
          (/\ SaveResponseOf(i)
           /\ pending[i].overtaken
           /\ lastOp.op = "capture")
          => SnapshotValue(heap', Retrieve(hist', cursor'))
                = SnapshotValue(heap, Retrieve(hist, cursor))]_vars

\* C3: a fit_spline response handled after another spline was loaded leaves
\* the history of the loaded spline as it is.
C3_LateFitKeepsHistory ==
    [][\A i \in DOMAIN pending :
          (FitResponseOf(i) /\ pending[i].overtaken)
          => /\ HistoryValues(heap', hist') = HistoryValues(heap, hist)
             /\ cursor' = cursor]_vars

\* C4: a snapshot that stays in the history keeps its knots and coefficients
\* through every step of the editor.
C4_SnapshotsKeepTheirArrays ==
    [][\A i \in 1..(cursor + 1) :
          (i \in DOMAIN hist' /\ hist'[i] = hist[i])
          => SnapshotValue(heap', hist'[i]) = SnapshotValue(heap, hist[i])]_vars

\* The steps in which an edit is captured into a history that holds a
\* snapshot
EditStep ==
    /\ HistoryLength(hist) > 0
    /\ lastOp'.op = "capture"
    /\ lastOp.op # "capture" \/ cursor' # cursor

\* C5: a capture keeps the snapshots up to the cursor, drops those after it
\* and appends the new one; the cursor is then the last index and redo is not
\* permitted.  So [a, b, c], undo, capture(d) gives [a, b, d].
C5_CaptureDiscardsRedoTail ==
    [][EditStep =>
          /\ Len(hist') = cursor + 2
          /\ SubSeq(hist', 1, cursor + 1) = SubSeq(hist, 1, cursor + 1)
          /\ cursor' = Len(hist') - 1
          /\ ~Redoable(hist', cursor')]_vars

\* [a, b, c], undo, capture(d): the capture has discarded c and the history
\* holds three snapshots with the cursor on the last
C5_Witness ==
    /\ lastOp.op = "capture"
    /\ lastOp.dropped = 1
    /\ Len(hist) = 3
    /\ cursor = 2

\* C6: a redo that follows an undo brings back the spline retrieve() returned
\* before the undo.
C6_UndoRedoRestores ==
    [][(lastOp.op = "undo" /\ lastOp'.op = "undo_redo")
          => SnapshotValue(heap', Retrieve(hist', cursor')) = lastOp.undone]_vars

\* A redo has followed an undo
C6_Witness ==
    /\ lastOp.op = "undo_redo"
    /\ cursor > 0

\* C7: whenever the history holds a snapshot the cursor is an index of the
\* snapshot sequence.
C7_CursorValid ==
    HistoryLength(hist) > 0 => (0 <= cursor /\ cursor < HistoryLength(hist))

\* Undo has moved the cursor back to the first of several snapshots
C7_Witness ==
    /\ lastOp.op = "undo"
    /\ cursor = 0
    /\ HistoryLength(hist) = MaxHist

\* C8: history.undo() is only called with the cursor above 0 and
\* history.redo() only with the cursor below the last index, in either
\* editor.
C8_UndoRedoPermitted == ~contractViolation

\* The undo button of the older editor has been clicked
C8_Witness ==
    /\ variant = SPLINE_EDITOR
    /\ lastOp.op = "undo"

\* C9: play issued while Paused requests the playback of the snapshot at the
\* cursor with the loop flag and the position of the transport, and when the
\* response is handled the transport is Playing and the start time is the
\* returned time plus INTERVAL.
C9_PlayFromPaused ==
    [][/\ (TogglePlayback /\ state = PAUSED /\ Retrieve(hist, cursor) # NoRef)
          => /\ Len(pending') = Len(pending) + 1
             /\ pending'[Len(pending')].kind = "play"
             /\ pending'[Len(pending')].spline = Retrieve(hist, cursor)
             /\ pending'[Len(pending')].loop = looping
             /\ pending'[Len(pending')].offset = position
       /\ \A i \in DOMAIN pending :
             (PlayResponseOf(i) /\ pending[i].issuedIn = PAUSED)
             => /\ state' = PLAYING
                /\ startTime' = clock + INTERVAL]_vars

\* C10: transport.play() is only called with the transport Paused.
C10_PlayOnlyFromPaused ==
    [][\A i \in DOMAIN pending : PlayResponseOf(i) => state = PAUSED]_vars

\* C11: transport.record() is only called with the transport Paused: a step
\* of toggle_recording() that starts a recording (the transport is not
\* Recording) is taken in Paused.
C11_RecordOnlyFromPaused ==
    [][(ToggleRecording /\ state # RECORDING) => state = PAUSED]_vars

\* C12: transport.pause() is only called with the transport Playing: the
\* response of a stop request, after which stop_spline_playback() calls
\* pause(), is handled in Playing.
C12_PauseOnlyFromPlaying ==
    [][\A i \in DOMAIN pending : StopResponseOf(i) => state = PLAYING]_vars

\* C13: a data message met while Playing with looping off stops the
\* transport (Paused) when the position it maps to is greater than the
\* duration and leaves it Playing when the position is at most the duration;
\* with looping on no data message changes the state of the transport.
C13_TickStopsAtEnd ==
    [][clock' # clock =>
          LET t == MovePosition(clock', startTime, looping, duration)
          IN  /\ (state = PLAYING /\ ~looping /\ t > duration) => state' = PAUSED
              /\ (state = PLAYING /\ t <= duration) => state' = PLAYING
              /\ looping => state' = state]_vars

\* A data message has stopped the playback at the end of the motion
C13_Witness ==
    /\ lastMessage = "stopped"
    /\ state = PAUSED
    /\ ~looping
    /\ position > duration

\* C14: a behavior notice with active = true leaves the transport Paused
\* whatever state it meets; a notice with active = false changes neither the
\* transport nor the history.
C14_NoticeForcesStop ==
    [][/\ new_behavior_message(TRUE) => state' = PAUSED
       /\ new_behavior_message(FALSE) =>
             /\ UNCHANGED transportVars
             /\ HistoryValues(heap', hist') = HistoryValues(heap, hist)
             /\ cursor' = cursor]_vars

\* An active notice has met a transport that was not Paused and stopped it
C14_Witness ==
    /\ lastMessage = "forced"
    /\ state = PAUSED

\* C15: every step in which the transport leaves Recording sends an
\* enable_motors request.
C15_RecordingEndsWithEnableMotors ==
    [][(state = RECORDING /\ state' # RECORDING) =>
          /\ Len(pending') = Len(pending) + 1
          /\ pending'[Len(pending')].kind = "enable_motors"]_vars

\* C16: when fit_spline fails, the recording is discarded and the history
\* is not touched: handling the failure leaves the snapshots, the cursor and
\* the transport as they are and leaves no recorded sample behind.
C16_FitFailureDiscardsRecording ==
    [][FitFailure =>
          /\ HistoryValues(heap', hist') = HistoryValues(heap, hist)
          /\ cursor' = cursor
          /\ state' = state
          /\ recordedTrajectory' = << >>]_vars

\* C17: when a play, stop or disable_motors request fails, the transport is
\* afterwards in the state it was in when the operation that made the
\* request began, and handling the failure leaves the history as it is.
C17_FailureRollsBack ==
    [][\A i \in DOMAIN pending :
          (/\ RequestFailureOf(i)
           /\ pending[i].kind \in {"play", "stop", "disable_motors"})
          => /\ state' = pending[i].issuedIn
             /\ HistoryValues(heap', hist') = HistoryValues(heap, hist)
             /\ cursor' = cursor]_vars

\* C18: while the transport is Playing, the position is written by move()
\* only: a step that changes the position of a Playing transport is the
\* handling of a data message.
C18_MoveSoleWriterWhilePlaying ==
    [][(state = PLAYING /\ position' # position) => clock' # clock]_vars

\* C19: the start time is anchored once, at the response of play, as the
\* returned time plus INTERVAL; a data message with timestamp T met while
\* Playing sets the position to T minus that anchor, wrapped modulo the
\* duration when looping is set.  So the second data message after a play
\* response at S (T = S + 2 * INTERVAL) gives the position INTERVAL.
C19_PositionFromAnchor ==
    [][/\ \A i \in DOMAIN pending :
             PlayResponseOf(i) => startTime' = clock + INTERVAL
       /\ (clock' # clock /\ state = PLAYING) =>
             /\ startTime' = startTime
             /\ position' = IF looping
                             THEN (clock' - startTime) % duration
                             ELSE clock' - startTime
             /\ (~looping /\ clock' = startTime + INTERVAL) => position' = INTERVAL]_vars

\* The second data message after the play response has been handled while
\* Playing with looping off
C19_Witness ==
    /\ state = PLAYING
    /\ ~looping
    /\ startTime > INTERVAL
    /\ clock = startTime + INTERVAL
    /\ position = INTERVAL

(***************************************************************************)
(* The curve view at work: the page resizes the graph area, the zoom       *)
(* buttons of the older editor move the viewport, and the base class in    *)
(* auto mode fits the viewport to its lines before every frame.            *)
(***************************************************************************)
MaxZoom == 1        \* zoom steps away from a width of one second, in or out
MaxDrags == 1      \* drag gestures of a session
MaxPan == 50       \* largest distance of the viewport's left edge from 0

\* The sizes the graph area takes, in pixels: one that shows the viewport,
\* and one as wide and one as high as the two margins
ClientSizes == {<<300, 300>>, <<2 * MARGIN, 300>>, <<300, 2 * MARGIN>>}

\* What Line.calc_bbox() of a line returns: a line with one sample, and
\* lines with more
LineBoxes ==
    { BBox(<<Num(0), Num(0)>>, <<Num(0), Num(0)>>),
      BBox(<<Num(0), Num(0)>>, <<Num(100), Num(0)>>),
      BBox(<<Num(50), Num(-20)>>, <<Num(200), Num(20)>>) }

RECURSIVE Power(_, _)
Power(x, k) == IF k = 0 THEN Num(1) ELSE Mul(x, Power(x, k - 1))

\* The viewport is at most MaxZoom zoom steps away from a width of one
\* second and at most MaxPan away from the origin, or it is not finite
WithinZoom(v) ==
    LET w == BBoxWidth(v)
        second == Num(100 * INTERVAL)
        most == Power(ZOOM_FACTOR_PER_STEP, MaxZoom)
    IN  isFinite(w) =>
            /\ ~Less(Mul(w, most), second)
            /\ ~Less(Mul(second, most), w)
            /\ ~Less(v.ll[1], Num(-MaxPan))
            /\ ~Less(Num(MaxPan), v.ll[1])

otherVars == <<heap, histVars, transportVars, pending, recordedTrajectory,
               listVars, toolVars, uiVars, clock, lastMessage, lastOp, variant, center,
               contractViolation, auto, drag>>

\* CurverBase.resize(), the handler of the window's "resize" event
Resize ==
    \E size \in ClientSizes :
        /\ graph' = [clientWidth |-> size[1], clientHeight |-> size[2]]
        /\ update_trafo(graph', viewport)
        /\ UNCHANGED <<viewport, dataBbox, otherVars>>

\* The "Zoom In" button of both editors
ZoomIn ==
    /\ variant \in {SPLINE_EDITOR, MOTION_EDITOR}
    /\ viewport' = zoom_bbox_in_place(viewport, ZOOM_FACTOR_PER_STEP)
    /\ WithinZoom(viewport')
    /\ update_trafo(graph, viewport')
    /\ UNCHANGED <<graph, dataBbox, otherVars>>

\* The "Zoom Out" button of both editors
ZoomOut ==
    /\ variant \in {SPLINE_EDITOR, MOTION_EDITOR}
    /\ viewport' = zoom_bbox_in_place(viewport, Div(Num(1), ZOOM_FACTOR_PER_STEP))
    /\ WithinZoom(viewport')
    /\ update_trafo(graph, viewport')
    /\ UNCHANGED <<graph, dataBbox, otherVars>>

\* The "Reset zoom" button of spline_editor.js
ResetZoom ==
    /\ variant = SPLINE_EDITOR
    /\ viewport' = dataBbox
    /\ update_trafo(graph, viewport')
    /\ UNCHANGED <<graph, dataBbox, otherVars>>

\* The "Reset zoom" button of motion_editor.js: nothing without a snapshot,
\* else the box of the current spline expanded by the default box
ResetZoomToSpline ==
    /\ variant = MOTION_EDITOR
    /\ IF HistoryLength(hist) = 0
       THEN UNCHANGED viewVars
       ELSE /\ viewport' = expand_by_bbox(SplineBBox(heap, Retrieve(hist, cursor)),
                                          defaultBbox)
            /\ update_trafo(graph, viewport')
    /\ UNCHANGED <<graph, dataBbox, otherVars>>

\* The pointer positions of a drag's begin, in pixels from the left of the
\* canvas, and the cumulative deltas of its updates
PointerXs == {MARGIN, 150}
DragDeltaXs == {0, 150}
DragDeltaYs == {0, 41}

\* Math.exp(-0.01 * dy) for the deltas above, to two digits: 1 and 0.66
ExpOfDelta(dy) == IF dy = 0 THEN Num(1) ELSE Frac(2, 3)

\* clip(value, lower, upper) of math.js on the numbers of the curve view
clipNum(v, lo, hi) == MathMax(lo, MathMin(hi, v))

\* The display width the drag divides by: canvas.width in motion_editor.js,
\* which resize() sets to graph.clientWidth; this.width in spline_editor.js,
\* a property that no class of the sources defines
dragWidth == IF variant = SPLINE_EDITOR THEN NaN ELSE Num(graph.clientWidth)

\* The begin of a drag on the svg: orig, a copy of the viewport, and the
\* focal point mid.  The pointer meets the svg only where the graph area
\* has a size.
DragBegin ==
    \E px \in PointerXs :
        LET pt == matrixTransform(<<Num(px), Num(0)>>, trafoInv)
            alpha == clipNum(Div(Sub(pt[1], viewport.ll[1]), BBoxWidth(viewport)),
                             Num(0), Num(1))
        IN  /\ variant \in {SPLINE_EDITOR, MOTION_EDITOR}
            /\ graph.clientWidth > 0 /\ graph.clientHeight > 0
            /\ ~drag.on
            /\ drag.made < MaxDrags
            /\ drag' = [on |-> TRUE, made |-> drag.made + 1, orig |-> viewport,
                        mid |-> Add(viewport.ll[1], Mul(alpha, BBoxWidth(viewport)))]
            /\ UNCHANGED <<heap, histVars, transportVars, pending, recordedTrajectory,
                           listVars, toolVars, uiVars, clock, lastMessage, lastOp,
                           variant, center, contractViolation, auto, viewVars, dataBbox, graph>>

\* A drag update that scales about the left edge of the snapshot
DraggedViewportAboutLeft(dx, dy) ==
    LET orig == drag.orig
        shift == Mul(Div(Num(-dx), dragWidth), BBoxWidth(orig))
        factor == ExpOfDelta(dy)
        left == Add(Mul(factor, shift), orig.ll[1])
        right == Add(Mul(factor, Add(BBoxWidth(orig), shift)), orig.ll[1])
    IN  BBox(<<left, viewport.ll[2]>>, <<right, viewport.ur[2]>>)

\* The viewport of a drag update with the cumulative delta <<dx, dy>>
DraggedViewport(dx, dy) ==
    LET orig == drag.orig
        shift == Mul(Div(Num(-dx), dragWidth), BBoxWidth(orig))
        factor == ExpOfDelta(dy)
        left == Add(Mul(factor, Add(Sub(orig.ll[1], drag.mid), shift)), drag.mid)
        right == Add(Mul(factor, Add(Sub(orig.ur[1], drag.mid), shift)), drag.mid)
    IN  BBox(<<left, viewport.ll[2]>>, <<right, viewport.ur[2]>>)

\* An update of a drag with the cumulative delta <<dx, dy>>
DragUpdateOf(dx, dy) ==
    /\ drag.on
    /\ viewport' = DraggedViewport(dx, dy)
    /\ WithinZoom(viewport')
    /\ update_trafo(graph, viewport')
    /\ UNCHANGED <<graph, dataBbox, otherVars>>

DragUpdate == \E dx \in DragDeltaXs, dy \in DragDeltaYs : DragUpdateOf(dx, dy)

\* The end of a drag: start, orig and mid are reset
DragEnd ==
    /\ drag.on
    /\ drag' = [on |-> FALSE, made |-> drag.made]
    /\ UNCHANGED <<heap, histVars, transportVars, pending, recordedTrajectory,
                   listVars, toolVars, uiVars, clock, lastMessage, lastOp,
                   variant, center, contractViolation, auto, viewVars, dataBbox, graph>>

\* A viewport that every pass widens by one unit before it is expanded
update_bbox_widening(boxes) ==
    LET RECURSIVE Expanded(_, _)
        Expanded(v, bs) ==
            IF bs = {} THEN v
            ELSE LET b == CHOOSE x \in bs : TRUE
                 IN  Expanded(expand_by_bbox(v, b), bs \ {b})
    IN  Expanded(BBox(viewport.ll,
                      <<Add(viewport.ur[1], Num(1)), viewport.ur[2]>>), boxes)

\* update_bbox(): the minimal viewport expanded by the boxes of the lines
update_bbox(boxes) ==
    LET RECURSIVE Expanded(_, _)
        Expanded(v, bs) ==
            IF bs = {} THEN v
            ELSE LET b == CHOOSE x \in bs : TRUE
                 IN  Expanded(expand_by_bbox(v, b), bs \ {b})
    IN  Expanded(MIN_VIEWPORT, boxes)

\* CurverBase.draw_lines() of a frame in auto mode: update_bbox() and
\* update_trafo()
DrawLinesOf(boxes) ==
    /\ auto
    /\ viewport' = update_bbox(boxes)
    /\ update_trafo(graph, viewport')
    /\ UNCHANGED <<graph, dataBbox, otherVars>>

DrawLines == \E boxes \in SUBSET LineBoxes : DrawLinesOf(boxes)

\* The base class after its constructor
InitCurver ==
    /\ heap = << >>
    /\ hist = ClearedHist
    /\ cursor = ClearedCursor
    /\ state = PAUSED
    /\ position = 0
    /\ duration = 0
    /\ looping = FALSE
    /\ startTime = 0
    /\ fsmError = FALSE
    /\ pending = << >>
    /\ recordedTrajectory = << >>
    /\ selected = NoName
    /\ content = << >>
    /\ limitOn = TRUE
    /\ livePreview = TRUE
    /\ saveDisabled = FALSE
    /\ undoDisabled = FALSE
    /\ redoDisabled = FALSE
    /\ stopDisabled = FALSE
    /\ recDisabled = FALSE
    /\ clock = 0
    /\ lastMessage = "passed"
    /\ lastOp = Op("none", NoMark, 0)
    /\ variant = CURVER
    /\ contractViolation = FALSE
    /\ viewport = MIN_VIEWPORT
    /\ dataBbox = MIN_VIEWPORT
    /\ graph = Unattached
    /\ trafo = IdentityMatrix
    /\ trafoInv = IdentityMatrix
    /\ auto = TRUE
    /\ drag = NoDrag
    /\ center = NewNotificationCenter

NextCurver ==
    \/ Resize
    \/ ZoomIn
    \/ ZoomOut
    \/ ResetZoom
    \/ DrawLines
    \/ DragBegin
    \/ DragUpdate
    \/ DragEnd

SpecCurver == (InitLegacy \/ InitCurver) /\ [][NextCurver]_vars

(***************************************************************************)
(* The curve view of the motion editor.                                    *)
(***************************************************************************)
NextView ==
    \/ PopulateList
    \/ ListClick
    \/ Resize
    \/ ZoomIn
    \/ ZoomOut
    \/ ResetZoomToSpline
    \/ DragBegin
    \/ DragUpdate
    \/ DragEnd

SpecView == Init /\ [][NextView]_vars

\* The zoom buttons on their own
NextZoom ==
    \/ PopulateList
    \/ ListClick
    \/ Resize
    \/ ZoomIn
    \/ ZoomOut
    \/ ResetZoomToSpline

SpecZoom == Init /\ [][NextZoom]_vars

\* The drag gesture on its own
NextDrag ==
    \/ PopulateList
    \/ ListClick
    \/ Resize
    \/ DragBegin
    \/ DragUpdate
    \/ DragEnd

SpecDrag == Init /\ [][NextDrag]_vars

\* C20: whenever update_trafo meets a degenerate viewport or display size
\* (a horizontal or vertical scale that is zero or not finite), the forward
\* and the inverse transform both stay exactly as they were, so the last
\* valid transform is retained and no singular matrix is stored.
C20_DegenerateKeepsTrafo ==
    [][TrafoDegenerate(graph', viewport')
         => /\ trafo' = trafo
            /\ trafoInv' = trafoInv
            /\ IsInvertible(trafo')]_vars

\* A degenerate size met after a valid transform was stored: the stored
\* transform is still the valid one
C20_Witness ==
    /\ TrafoDegenerate(graph, viewport)
    /\ trafo # IdentityMatrix
    /\ IsInvertible(trafo)
    /\ trafoInv = MatrixInverse(trafo)

\* The corners and the centre of a box
BoxPoints(b) ==
    { <<x, y>> : x \in {b.ll[1], b.ur[1], Mul(Frac(1, 2), Add(b.ll[1], b.ur[1]))},
                 y \in {b.ll[2], b.ur[2], Mul(Frac(1, 2), Add(b.ll[2], b.ur[2]))} }

\* C21: in every state the stored inverse transform is the inverse of the
\* stored forward transform, and for a viewport that is not degenerate
\* mapping a point of the viewport forward and back gives the point again.
C21_TrafoRoundTrip ==
    /\ IsInvertible(trafo)
    /\ trafoInv = MatrixInverse(trafo)
    /\ trafo = MatrixInverse(trafoInv)
    /\ ~TrafoDegenerate(graph, viewport) =>
          \A p \in BoxPoints(viewport) :
              matrixTransform(matrixTransform(p, trafo), trafoInv) = p

\* A viewport that is shown, through a transform computed for it
C21_Witness ==
    /\ ~TrafoDegenerate(graph, viewport)
    /\ graph.clientWidth > 2 * MARGIN
    /\ trafo = TrafoMatrix(graph, viewport)
    /\ viewport # dataBbox
    /\ matrixTransform(viewport.ll, trafo) = <<Num(MARGIN), Num(graph.clientHeight - MARGIN)>>

BoxMid(b) == Mul(Frac(1, 2), Add(b.ll[1], b.ur[1]))
BoxFinite(b) == isFinite(b.ll[1]) /\ isFinite(b.ur[1])

\* A step of a zoom button with the factor f as the specification has it
ZoomedBy(f) ==
    /\ BoxMid(viewport') = BoxMid(viewport)
    /\ BBoxWidth(viewport') = Div(BBoxWidth(viewport), f)
    /\ viewport'.ll[2] = viewport.ll[2]
    /\ viewport'.ur[2] = viewport.ur[2]
    /\ zoom_bbox_in_place(viewport', Div(Num(1), f)) = viewport

PannedBy(dx) ==
    LET orig == drag.orig
        shift == Div(Mul(Num(-dx), BBoxWidth(orig)), Num(graph.clientWidth))
    IN  /\ BBoxWidth(viewport') = BBoxWidth(orig)
        /\ viewport'.ll[1] = Add(orig.ll[1], shift)
        /\ viewport'.ur[1] = Add(orig.ur[1], shift)

\* C23: a drag update whose cumulative delta has y = 0 leaves the viewport
\* as wide as the snapshot of the drag's begin and shifts both edges by
\* -deltaX * snapshotWidth / displayWidth.
C23_HorizontalDragPans ==
    [][\A dx \in DragDeltaXs : DragUpdateOf(dx, 0) => PannedBy(dx)]_vars

\* a === b of two numbers: NaN equals nothing
Same(a, b) == ~isNaN(a) /\ ~isNaN(b) /\ a = b

\* The pixel x of the curve-space abscissa x under the matrix m
ForwardX(x, m) == matrixTransform(<<x, Num(0)>>, m)[1]

\* A drag update with the cumulative delta <<0, dy>> as the specification
\* has it
ZoomedInPlace(dy) ==
    LET orig == drag.orig
        mid == drag.mid
        factor == ExpOfDelta(dy)
    IN  /\ Same(Sub(viewport'.ll[1], mid), Mul(factor, Sub(orig.ll[1], mid)))
        /\ Same(Sub(viewport'.ur[1], mid), Mul(factor, Sub(orig.ur[1], mid)))
        /\ Same(Div(Sub(mid, viewport'.ll[1]), BBoxWidth(viewport')),
                Div(Sub(mid, orig.ll[1]), BBoxWidth(orig)))
        /\ (~TrafoDegenerate(graph, orig) /\ ~TrafoDegenerate(graph, viewport')) =>
              Same(ForwardX(mid, trafo'), ForwardX(mid, TrafoMatrix(graph, orig)))

SplineOp(op, of, arg) == [op |-> op, of |-> of, arg |-> arg]

\* Arrays a caller may pass to the constructor: two splines as the spec
\* describes them, one with knots that do not increase, and one whose
\* coefficients have a segment more than the knots
SplineInputs ==
    { [c |-> << <<0>>, <<0>>, <<6>>, <<6>> >>, x |-> <<2, 4>>],
      [c |-> << <<-2, 2>>, <<0, 2>>, <<2, 4>>, <<2, 4>> >>, x |-> <<-2, 0, 2>>],
      [c |-> << <<2>>, <<2>>, <<4>>, <<4>> >>, x |-> <<2, 2>>],
      [c |-> << <<0, 2>>, <<0, 2>>, <<2, 4>>, <<2, 4>> >>, x |-> <<0, 2>>] }

\* The invariants of a spline: knots strictly increasing, one column of
\* coefficients per segment
WellFormed(c, x) ==
    /\ \A i \in 1..(Len(x) - 1) : x[i] < x[i + 1]
    /\ \A r \in DOMAIN c : Len(c[r]) = Len(x) - 1

SplineRest == <<cursor, transportVars, recordedTrajectory, selected, toolVars,
                uiVars, clock, lastMessage, variant, center, contractViolation,
                viewVars, dataBbox, graph, auto, drag>>

\* An instance s with its arrays in h joins the instances
Made(h, s, op) ==
    /\ Len(hist) < MaxSplines
    /\ Commit(h, Append(hist, s), content, pending)
    /\ lastOp' = op
    /\ UNCHANGED SplineRest

\* new BPoly(c, x): the arrays are taken as they are, this.c = c and
\* this.x = x
BPolyRef(h) ==
    LET nc == Fresh(DOMAIN h)
        nx == Fresh(DOMAIN h \cup {nc})
    IN [c |-> nc, x |-> nx]

BPolyHeap(h, c, x) == Store(Store(h, BPolyRef(h).c, c), BPolyRef(h).x, <<x>>)

ConstructOf(in) ==
    Made(BPolyHeap(heap, in.c, in.x), BPolyRef(heap), SplineOp("new", 0, in))
Construct == \E in \in SplineInputs : ConstructOf(in)

\* BPoly.from_object(dct): new BPoly(dct.coefficients, dct.knots, ...)
FromObjectOf(in) ==
    Made(BPolyHeap(heap, in.c, in.x), BPolyRef(heap), SplineOp("from_object", 0, in))
FromObject == \E in \in SplineInputs : FromObjectOf(in)

\* s.copy()
CopyOf(i) ==
    Made(CopyHeap(heap, hist[i]), CopyRef(heap, hist[i]), SplineOp("copy", i, 0))
CopySpline == \E i \in DOMAIN hist : CopyOf(i)

\* s.restrict_to_bbox(limits): the arrays of s are clamped in place
RestrictOf(i) ==
    /\ heap' = restrict_to_bbox(heap, hist[i], limits(TRUE))
    /\ heap' # heap
    /\ lastOp' = SplineOp("restrict", i, [op |-> lastOp.op, of |-> lastOp.of])
    /\ UNCHANGED <<hist, content, pending, SplineRest>>
RestrictSpline == \E i \in DOMAIN hist : RestrictOf(i)

\* stretch_spline(s, num / den)
StretchOf(i, num, den) ==
    LET s == hist[i]
        n == Fresh(DOMAIN heap)
    IN  /\ Divisible(num, den, Knots(heap, s))
        /\ KnotsInBounds(StretchedKnots(Knots(heap, s), num, den))
        /\ Made(Store(heap, n, <<StretchedKnots(Knots(heap, s), num, den)>>),
                [c |-> s.c, x |-> n], SplineOp("stretch", i, <<num, den>>))
Factors == {<<1, 2>>, <<2, 1>>}
StretchSpline == \E i \in DOMAIN hist, f \in Factors : StretchOf(i, f[1], f[2])

\* scale_spline(s, num / den)
ScaleOf(i, num, den) ==
    LET s == hist[i]
        n == Fresh(DOMAIN heap)
    IN  /\ CoeffsDivisible(Coeffs(heap, s), num, den)
        /\ CoeffsInBounds(ScaledCoeffs(Coeffs(heap, s), num, den))
        /\ Made(Store(heap, n, ScaledCoeffs(Coeffs(heap, s), num, den)),
                [c |-> n, x |-> s.x], SplineOp("scale", i, <<num, den>>))
ScaleSpline == \E i \in DOMAIN hist, f \in Factors : ScaleOf(i, f[1], f[2])

\* shift_spline(s, offset)
ShiftOf(i, offset) ==
    LET s == hist[i]
        n == Fresh(DOMAIN heap)
    IN  /\ KnotsInBounds(ShiftedKnots(Knots(heap, s), offset))
        /\ Made(Store(heap, n, <<ShiftedKnots(Knots(heap, s), offset)>>),
                [c |-> s.c, x |-> n], SplineOp("shift", i, offset))
Offsets == {<<"-inf", 0>>, <<"fin", -DEFAULT_KNOT_SHIFT>>, <<"fin", DEFAULT_KNOT_SHIFT>>}
ShiftSpline == \E i \in DOMAIN hist, o \in Offsets : ShiftOf(i, o)

\* zero_spline(1): the flat cubic spline of one second
ZeroSpline ==
    Made(BPolyHeap(heap, ZeroCoeffs, ZeroKnots), BPolyRef(heap),
         SplineOp("zero", 0, 0))

\* The knots of instance s increase strictly and every row of coefficients
\* has one column per segment
Valid(h, s) == WellFormed(Coeffs(h, s), Knots(h, s))

\* s.insert_knot([t, y]) of a valid spline s: the arrays of s are changed
\* in place
MaxSegments == 3
InsertPoints == {<<0, 2000>>, <<1, -1>>, <<3, 1>>, <<50, 2000>>}
InsertKnotOf(i, p) ==
    LET s == hist[i]
    IN  /\ NSegments(heap, s) < MaxSegments
        /\ Valid(heap, s)
        /\ heap' = [heap EXCEPT
                       ![s.c] = InsertedCoeffs(heap[s.c], Knots(heap, s), p[1], p[2]),
                       ![s.x] = <<InsertedKnots(Knots(heap, s), p[1])>>]
        /\ lastOp' = SplineOp("insert", i, p)
        /\ UNCHANGED <<hist, content, pending, SplineRest>>
InsertKnotInto == \E i \in DOMAIN hist, p \in InsertPoints : InsertKnotOf(i, p)

\* Splines that are constructed and get knots inserted
NextInsert ==
    \/ ZeroSpline
    \/ Construct
    \/ InsertKnotInto

SpecInsert == Init /\ [][NextInsert]_vars

NextSpline ==
    \/ Construct
    \/ FromObject
    \/ CopySpline
    \/ RestrictSpline
    \/ StretchSpline
    \/ ScaleSpline
    \/ ShiftSpline

SpecSpline == Init /\ [][NextSpline]_vars

\* C25: s.copy() has the knots, the coefficients and the bbox() of s and
\* leaves s as it is, it shares no array with s, and clamping the copy in
\* place right after it was made does not change s.
C25_CopyIsolated ==
    [][\A i \in DOMAIN hist :
          /\ CopyOf(i) =>
                LET s == hist'[i]
                    copy == hist'[Len(hist')]
                IN  /\ Knots(heap', copy) = Knots(heap, hist[i])
                    /\ Coeffs(heap', copy) = Coeffs(heap, hist[i])
                    /\ SplineBBox(heap', copy) = SplineBBox(heap, hist[i])
                    /\ SnapshotValue(heap', s) = SnapshotValue(heap, hist[i])
                    /\ RefIds(copy) \cap RefIds(s) = {}
          /\ (RestrictOf(i) /\ lastOp.op = "copy" /\ i = Len(hist)) =>
                SnapshotValue(heap', hist'[lastOp.of]) = SnapshotValue(heap, hist[lastOp.of])]_vars

\* A copy that was clamped in place and now differs from its original
C25_Witness ==
    /\ Len(hist) = 2
    /\ lastOp = SplineOp("restrict", 2, [op |-> "copy", of |-> 1])
    /\ SnapshotValue(heap, hist[2]) # SnapshotValue(heap, hist[1])
    /\ Knots(heap, hist[2]) = RestrictedKnots(Knots(heap, hist[1]), limits(TRUE))
    /\ Knots(heap, hist[2]) # Knots(heap, hist[1])
    /\ Coeffs(heap, hist[2]) # Coeffs(heap, hist[1])

\* C26: stretch_spline(s, k) returns a spline whose duration is k times the
\* duration of s and whose coefficients are those of s.
C26_StretchScalesDuration ==
    [][\A i \in DOMAIN hist, f \in Factors :
          StretchOf(i, f[1], f[2]) =>
              LET new == hist'[Len(hist')]
              IN  /\ SplineDuration(heap', new) * f[2] = f[1] * SplineDuration(heap, hist[i])
                  /\ Coeffs(heap', new) = Coeffs(heap, hist[i])
                  /\ SnapshotValue(heap', hist'[i]) = SnapshotValue(heap, hist[i])]_vars

\* A spline that does not start at 0, and the same stretched to twice its
\* duration
C26_Witness ==
    /\ Len(hist) = 2
    /\ lastOp = SplineOp("stretch", 1, <<2, 1>>)
    /\ SplineStart(heap, hist[1]) # 0
    /\ SplineDuration(heap, hist[1]) > 0
    /\ SplineDuration(heap, hist[2]) = 2 * SplineDuration(heap, hist[1])
    /\ Coeffs(heap, hist[2]) = Coeffs(heap, hist[1])

\* array_shape of a coefficient array: rows and columns
Shape(cs) == <<Len(cs), [r \in DOMAIN cs |-> Len(cs[r])]>>

C28_ShiftCappedAtStart ==
    [][\A i \in DOMAIN hist, o \in Offsets :
          ShiftOf(i, o) =>
              LET old == Knots(heap, hist[i])
                  new == Knots(heap', hist'[Len(hist')])
                  by == new[1] - old[1]
              IN  /\ Len(new) = Len(old)
                  /\ \A k \in DOMAIN old : new[k] - old[k] = by
                  /\ new[1] >= 0
                  /\ IF o[1] = "fin" /\ old[1] + o[2] >= 0
                     THEN by = o[2]
                     ELSE by = -old[1]
                  /\ SplineDuration(heap', hist'[Len(hist')]) = SplineDuration(heap, hist[i])
                  /\ Coeffs(heap', hist'[Len(hist')]) = Coeffs(heap, hist[i])
                  /\ SnapshotValue(heap', hist'[i]) = SnapshotValue(heap, hist[i])]_vars

\* A spline that starts after 0, and the same shifted to the left by less
\* than the offset asked for, to 0
C28_Witness ==
    /\ Len(hist) = 2
    /\ lastOp = SplineOp("shift", 1, <<"fin", -DEFAULT_KNOT_SHIFT>>)
    /\ SplineStart(heap, hist[1]) > 0
    /\ SplineStart(heap, hist[1]) < DEFAULT_KNOT_SHIFT
    /\ SplineStart(heap, hist[2]) = 0
    /\ SplineDuration(heap, hist[2]) = SplineDuration(heap, hist[1])
    /\ SplineDuration(heap, hist[2]) > 0

\* C29: a construction, direct or from a persisted record, that yields an
\* instance was given knots that increase strictly and coefficients with
\* one column per segment: malformed arrays yield no instance.
C29_MalformedRejected ==
    [][\A in \in SplineInputs :
          (ConstructOf(in) \/ FromObjectOf(in)) => WellFormed(in.c, in.x)]_vars

\* a <= b of two numbers: false if one of them is NaN
LessEq(a, b) == ~isNaN(a) /\ ~isNaN(b) /\ ~Less(b, a)

\* C30: in every state of an editor or a plotter the lower left corner of
\* the viewport is not right of and not above its upper right corner.
C30_ViewportOrdered ==
    /\ LessEq(viewport.ll[1], viewport.ur[1])
    /\ LessEq(viewport.ll[2], viewport.ur[2])

\* C31: a render pass over the lines changes neither the history, the
\* transport state and position nor the recorded trajectory, and the state
\* it leaves is one a second pass over the same lines leaves as it is: the
\* second pass computes the same viewport and, where it computes a transform
\* at all, the same transform and inverse.
C31_RenderIdempotent ==
    [][\A boxes \in SUBSET LineBoxes :
          DrawLinesOf(boxes) =>
              /\ UNCHANGED <<heap, hist, cursor, state, position, startTime,
                             recordedTrajectory>>
              /\ update_bbox(boxes)' = viewport'
              /\ \/ TrafoDegenerate(graph', viewport')
                 \/ /\ trafo' = TrafoMatrix(graph', viewport')
                    /\ trafoInv' = MatrixInverse(trafo')]_vars

\* A frame in auto mode that has fitted the viewport to all lines and
\* computed the transform of an attached graph for it
C31_Witness ==
    /\ auto
    /\ viewport = update_bbox(LineBoxes)
    /\ ~TrafoDegenerate(graph, viewport)
    /\ trafo = TrafoMatrix(graph, viewport)
    /\ trafo # IdentityMatrix

ChannelInput(k) ==
    CASE k = 1 -> [c |-> << <<0>>, <<0>>, <<6>>, <<6>> >>, x |-> <<2, 4>>,
                   dims |-> 0]
      [] k = 2 -> [c |-> << <<-2, 2>>, <<0, 2>>, <<2, 4>>, <<2, 4>> >>,
                   x |-> <<-2, 0, 2>>, dims |-> 0]
      [] k = 3 -> [c |-> << <<1, 5>>, <<3, -4>> >>, x |-> <<0, 1, 2>>,
                   dims |-> 0]
      [] k = 4 -> [c |-> << <<7>> >>, x |-> <<0, 1>>, dims |-> 0]
      [] k = 5 -> [c |-> << << <<3>> >>, << <<-1>> >> >>, x |-> <<0, 2>>,
                   dims |-> 1]
      [] k = 6 -> [c |-> << << <<0, 5>> >>, << <<-3, 2>> >> >>, x |-> <<0, 2>>,
                   dims |-> 2]
      [] k = 7 -> [c |-> << << <<1, 1>>, <<2, 2>> >>, << <<1, 1>>, <<2, 2>> >> >>,
                   x |-> <<0, 1, 2>>, dims |-> 2]
      [] OTHER -> [c |-> << << <<0, 0>> >>, << <<0, 0>> >>, << <<0, 0>> >>,
                            << <<0, 0>> >> >>,
                   x |-> <<0, 100>>, dims |-> 2]
ChannelInputs == 1..8

\* The number an argument of Math.min / Math.max is converted to: a number
\* is itself, an array of one number is that number, an empty array is 0
\* and a longer array is NaN
ToNumber(e, dims) ==
    IF dims = 0 THEN Num(e)
    ELSE IF Len(e) = 0 THEN Num(0)
    ELSE IF Len(e) = 1 THEN Num(e[1])
    ELSE NaN

\* array_min / array_max of math.js: Math.min / Math.max of the elements
array_min(arr, dims) ==
    LET RECURSIVE Least(_)
        Least(k) == IF k = 0 THEN Infinity
                    ELSE MathMin(Least(k - 1), ToNumber(arr[k], dims))
    IN  Least(Len(arr))

array_max(arr, dims) ==
    LET RECURSIVE Most(_)
        Most(k) == IF k = 0 THEN NegInfinity
                   ELSE MathMax(Most(k - 1), ToNumber(arr[k], dims))
    IN  Most(Len(arr))

\* BPoly.min / max: array_min(this.c.flat()), one level flattened
BPolyMin(c, dims) == array_min(flat(c), dims)
BPolyMax(c, dims) == array_max(flat(c), dims)

\* BPoly.bbox()
BPolyBBox(c, x, dims) ==
    BBox(<<Num(x[1]), BPolyMin(c, dims)>>, <<Num(x[Len(x)]), BPolyMax(c, dims)>>)

\* bbox() of the spline that was constructed last
BBoxOf(i) ==
    /\ lastOp.op = "new"
    /\ i = Len(hist)
    /\ lastOp' = SplineOp("bbox", i,
                    [dims |-> lastOp.arg.dims,
                     box |-> BPolyBBox(Coeffs(heap, hist[i]), Knots(heap, hist[i]),
                                       lastOp.arg.dims)])
    /\ UNCHANGED <<heap, hist, content, pending, SplineRest>>
MeasureSpline == \E i \in DOMAIN hist : BBoxOf(i)

ConstructChannels == \E k \in ChannelInputs : ConstructOf(ChannelInput(k))

NextExtrema ==
    \/ ConstructChannels
    \/ MeasureSpline

SpecExtrema == Init /\ [][NextExtrema]_vars

\* Every coefficient of every order, segment and channel
AllCoefficients(c, dims) ==
    IF dims = 0
    THEN {c[r][s] : r \in DOMAIN c, s \in DOMAIN c[1]}
    ELSE {c[r][s][k] : r \in DOMAIN c, s \in DOMAIN c[1], k \in 1..dims}

\* C33: bbox() of a spline is the box from [start, min] to [end, max],
\* where min and max are the smallest and the largest coefficient over all
\* orders, segments and channels, for coefficients of shape [order][N] and
\* of shape [order][N][dims] alike.
C33_ExtremaOverAllChannels ==
    [][\A i \in DOMAIN hist :
          BBoxOf(i) =>
              LET c == Coeffs(heap, hist[i])
                  x == Knots(heap, hist[i])
                  all == AllCoefficients(c, lastOp.arg.dims)
              IN  lastOp'.arg.box =
                      BBox(<<Num(SplineStart(heap, hist[i])), Num(SetMin(all))>>,
                           <<Num(SplineEnd(heap, hist[i])), Num(SetMax(all))>>)]_vars

\* The same for coefficients without a channel axis and with a channel axis
\* of one channel
C33_ExtremaOfOneChannel ==
    [][\A i \in DOMAIN hist :
          (BBoxOf(i) /\ lastOp.arg.dims <= 1) =>
              LET c == Coeffs(heap, hist[i])
                  all == AllCoefficients(c, lastOp.arg.dims)
              IN  lastOp'.arg.box =
                      BBox(<<Num(SplineStart(heap, hist[i])), Num(SetMin(all))>>,
                           <<Num(SplineEnd(heap, hist[i])), Num(SetMax(all))>>)]_vars

\* bbox() of a spline of two channels
C33_Witness ==
    /\ lastOp.op = "bbox"
    /\ lastOp.arg.dims = 2
    /\ isNaN(lastOp.arg.box.ll[2])

\* The arrays of spline s lie within limits() of a checked limit switch
WithinLimits(h, s) ==
    /\ \A v \in FlatCoeffs(Coeffs(h, s)) : 0 <= v /\ v <= LimitTop
    /\ \A i \in DOMAIN Knots(h, s) : Knots(h, s)[i] >= 0

\* C34: a step that captures a spline through spline_changed (scale,
\* stretch, shift, reset, insert knot) while the limit switch is on leaves
\* at the cursor a snapshot whose coefficients lie within 0 and the larger
\* of 0.001 and the length of the longest motor, and whose knots are not
\* negative.
C34_CapturedWithinLimits ==
    [][(lastOp'.op = "capture" /\ cursor' # cursor /\ limitOn) =>
          /\ Retrieve(hist', cursor') # NoRef
          /\ WithinLimits(heap', Retrieve(hist', cursor'))]_vars

\* An edit of a motion with a coefficient above the limit has been
\* captured: the coefficient is at the limit
C34_Witness ==
    /\ limitOn
    /\ lastOp.op = "capture"
    /\ HistoryLength(hist) > 1
    /\ SplineMax(heap, Retrieve(hist, cursor)) = LimitTop
    /\ \E n \in DOMAIN content :
           content[n] # NoRef /\ SplineMax(heap, content[n]) > LimitTop

\* C35: once an operation that changes the current snapshot is over (a load,
\* an edit captured through spline_changed, an undo, a redo, a fitted
\* recording), the duration of the transport is the last knot of the
\* snapshot at the cursor of the history.
C35_DurationIsEndOfCurrent ==
    Retrieve(hist, cursor) # NoRef =>
        duration = SplineEnd(heap, Retrieve(hist, cursor))

\* C36: history.retrieve() is called only while the history holds a
\* snapshot; in particular toggle_playback() of a transport that is not
\* playing, which calls play_current_spline() and with it retrieve(), is
\* taken only after a spline has been captured.
C36_RetrieveOnlyAfterCapture ==
    [][(TogglePlayback /\ state # PLAYING) =>
          /\ HistoryLength(hist) > 0
          /\ Retrieve(hist, cursor) # NoRef]_vars

\* C37: when a recording session starts, the transport going to Recording,
\* the recorded trajectory is empty: the samples of the session before were
\* discarded when it ended.
C37_RecordingStartsEmpty ==
    [][(state # RECORDING /\ state' = RECORDING) =>
          recordedTrajectory = << >>]_vars

\* C38: a history with unsaved changes is cleared by loading a spline only
\* in a step of a handler that asks the user first, the click on a list
\* entry: no other path, the reload of the list after a deletion and its
\* preselection of the latest motion included, loads a spline while the
\* history is savable.
C38_UnsavedClearedOnlyOnConfirmation ==
    [][(Savable(hist) /\ lastOp'.op = "load" /\ lastOp.op # "load") =>
          ListClick]_vars

\* C39: with data messages that keep arriving, a transport that is Playing
\* with looping off is Paused at some later time.
C39_PlaybackEnds == (state = PLAYING /\ ~looping) ~> (state = PAUSED)

\* A playback of the longer motion that a data message has ended
C39_Witness ==
    /\ state = PAUSED
    /\ lastMessage = "stopped"
    /\ ~looping
    /\ duration = 4
    /\ position > duration
    /\ clock > MaxTime

(***************************************************************************)
(* The notifications of the motors: the motor messages of the backend and  *)
(* the dismissal of a notification (by its wait time or by a click).       *)
(***************************************************************************)
NotificationRest == <<heap, histVars, transportVars, pending, recordedTrajectory,
                      listVars, toolVars, uiVars, clock, lastMessage, lastOp,
                      variant, contractViolation, viewVars, dataBbox, graph,
                      auto, drag>>

RECURSIVE AfterMotorUpdates(_, _)
\* msg.motors.forEach(motor => this.update_motor_notification(motor))
AfterMotorUpdates(c, motors) ==
    IF motors = << >>
    THEN c
    ELSE AfterMotorUpdates(update_motor_notification(c, Head(motors)), Tail(motors))

\* NotificationCenter.new_motor_message for the motors of a message
new_motor_message(motors) ==
    /\ center' = AfterMotorUpdates(center, motors)
    /\ center'.idCounter <= MaxNotifications + 1
    /\ UNCHANGED NotificationRest

\* a message of type "motor-update"
MotorUpdate == \E motor \in Motors : new_motor_message(<<motor>>)

\* a message of type "motor-updates": the motors of the being
MotorUpdates ==
    \E first, second \in Motors :
        /\ first.id = 1
        /\ second.id = 2
        /\ new_motor_message(<<first, second>>)

\* alertify takes a notification away and runs its callback
Dismissed ==
    \E id \in DOMAIN center.persistentNotifications :
        /\ center' = Dismissal(center, id)
        /\ UNCHANGED NotificationRest

NextMotors == MotorUpdate \/ MotorUpdates \/ Dismissed

SpecMotors == Init /\ [][NextMotors]_vars

\* the notifications on display that report the motor m
DisplayedOf(c, m) ==
    {id \in DOMAIN c.persistentNotifications : c.persistentNotifications[id].motor = m}

\* every id the center holds anywhere
KnownIds(c) ==
    DOMAIN c.persistentNotifications \cup DOMAIN c.beenSaid
        \cup {c.motorNotifications[m] : m \in DOMAIN c.motorNotifications}

\* the message of the homing state of a named motor
HomingMessage(c, motor) == c.motorNames[motor.id] \o HomingNotice(motor.homing).text

\* C40: every motor has at most one notification on display; an update of
\* the homing state of a motor whose notification is on display remodels
\* that notification and keeps its id, and only an update of a motor with
\* no notification on display makes a new one, under an id that no
\* notification has had before (the ids in use lie below the counter, and
\* the counter never goes down).
C40_OneNotificationPerMotor ==
    [][/\ \A m \in MotorIds : Cardinality(DisplayedOf(center', m)) <= 1
       /\ center'.idCounter >= center.idCounter
       /\ \A id \in KnownIds(center') : id < center'.idCounter
       /\ \A motor \in Motors :
             center' = update_motor_notification(center, motor) =>
                 LET m == motor.id
                     shown == DisplayedOf(center, m)
                     id == center'.motorNotifications[m]
                 IN  IF shown # {}
                     THEN /\ id \in shown
                          /\ center'.idCounter = center.idCounter
                          /\ DOMAIN center'.persistentNotifications =
                                 DOMAIN center.persistentNotifications
                          /\ center'.persistentNotifications[id].msg =
                                 HomingMessage(center', motor)
                     ELSE /\ id = center.idCounter
                          /\ id \notin KnownIds(center)
                          /\ center'.idCounter = center.idCounter + 1
                          /\ DOMAIN center'.persistentNotifications =
                                 DOMAIN center.persistentNotifications \cup {id}
                          /\ DisplayedOf(center', m) = {id}]_vars

\* the first motor has kept the id of its notification through a change of
\* its message while the second motor, its notification dismissed, was
\* given a new one
C40_Witness ==
    /\ DOMAIN center.motorNotifications = {1, 2}
    /\ center.motorNotifications[1] = 1
    /\ center.motorNotifications[2] = 3
    /\ DOMAIN center.persistentNotifications = {1, 3}
    /\ center.persistentNotifications[1].msg # center.beenSaid[1]
    /\ center.persistentNotifications[1].motor = 1
    /\ center.persistentNotifications[3].motor = 2
    /\ center.idCounter = 4

====
